---------------------------- MODULE Spec2Model ----------------------------
(***************************************************************************)
(* Bookly authentication core: credential store, login guardrail, refresh  *)
(* token ledger, one-time token workflow and role gates, modelled from     *)
(* src/routers/auth.py, src/utils/rate_limit.py, src/utils/rbac.py,        *)
(* src/models.py and src/config.py.                                        *)
(*                                                                         *)
(* Time is an integer number of minutes (datetime.utcnow()); a timedelta   *)
(* of h hours is h * 60, of d days d * 24 * 60.  Every handler runs at one *)
(* instant `now`.  A nullable column holds None.  Random tokens            *)
(* (secrets.token_urlsafe) are drawn fresh from a counter.                 *)
(***************************************************************************)
EXTENDS Integers, FiniteSets, Sequences, Bags, TLC

VARIABLES
    users,           \* table users: uid -> row (src/models.py User)
    refresh_tokens,  \* table refresh_tokens: set of rows (RefreshToken)
    access_tokens,   \* access tokens (JWT claims) handed out so far
    now,             \* datetime.utcnow(), in minutes
    next_token,      \* next value of the random token source
    resp,            \* the last request and the HTTP response it got
    streak,          \* history: uid -> run of failed logins, each within the window
    consumed,        \* history: bag of the successful consumes of one-time tokens
    sess,            \* per concurrent request: its position and its session
    gate,            \* role-gate evaluation: inputs and outcomes
    oauth_states     \* src/routers/oauth.py oauth_states: the pending states

vars == <<users, refresh_tokens, access_tokens, now, next_token, resp,
          streak, consumed, sess, gate, oauth_states>>

-----------------------------------------------------------------------------
(* Bounds of the model *)

MaxUsers == 2
MaxMinutes == 35
TickStep == 5
MaxTokens == 2
MaxAccessTokens == 2
MaxPeriods == 2
MaxTicks == 2

(* src/config.py *)
ACCESS_TOKEN_EXPIRE_MINUTES == 30
REFRESH_TOKEN_EXPIRE_DAYS == 7
VERIFICATION_TOKEN_EXPIRE_HOURS == 24
RESET_TOKEN_EXPIRE_HOURS == 1
LOGIN_RATE_LIMIT_ATTEMPTS == 5
LOGIN_RATE_LIMIT_WINDOW_MINUTES == 15
ACCOUNT_LOCKOUT_MINUTES == 30

None == 0 - 1
NoneStr == "<None>"

hours(h) == h * 60
days(d) == d * 24 * 60

(* src/models.py UserRole *)
USER == "user"
MODERATOR == "moderator"
ADMIN == "admin"
UserRole == {USER, MODERATOR, ADMIN}

(* Request inputs *)
Emails == {"a@x.com", "b@x.com"}
Passwords == {"pw", "pw2"}
\* tokens MaxTokens + 1 .. are those of accounts registered before the run
SeedToken(k) == MaxTokens + k
TokenInputs == 1..SeedToken(1)
UserAgents == {"ua"}

-----------------------------------------------------------------------------
(* Password hashing: passlib CryptContext(bcrypt) *)

NoHash == <<>>

get_password_hash(password) == <<"bcrypt", password>>

\* pwd_context.verify returns False for a null hash
verify_password(plain_password, hashed_password) ==
    /\ hashed_password # NoHash
    /\ hashed_password = get_password_hash(plain_password)

-----------------------------------------------------------------------------
(* Access tokens: the claims a signed JWT carries *)

\* signed: whether the signature verifies under SECRET_KEY
NoAccess == [sub |-> None, exp |-> None, signed |-> FALSE]

create_access_token(sub, t) ==
    [sub |-> sub, exp |-> t + ACCESS_TOKEN_EXPIRE_MINUTES, signed |-> TRUE]

\* the model keeps at most MaxAccessTokens distinct access tokens
CanHandOut(access_token) ==
    access_token \in access_tokens \/ Cardinality(access_tokens) < MaxAccessTokens

\* a token whose signature does not verify
Forged(sub, t) == [create_access_token(sub, t) EXCEPT !.signed = FALSE]

-----------------------------------------------------------------------------
(* The users table *)

NewUser(username, email, hashed_password, is_verified, vtoken, vexpiry) ==
    [ username |-> username,
      email |-> email,
      hashed_password |-> hashed_password,
      role |-> USER,
      is_active |-> TRUE,
      is_verified |-> is_verified,
      verification_token |-> vtoken,
      verification_token_expiry |-> vexpiry,
      reset_token |-> None,
      reset_token_expiry |-> None,
      failed_login_attempts |-> 0,
      last_failed_login |-> None,
      account_locked_until |-> None ]

\* select(User).where(User.email == email): the set of matching uids
ByEmail(email) == {u \in DOMAIN users : users[u].email = email}
ByUsername(username) == {u \in DOMAIN users : users[u].username = username}
ByVerificationToken(tok) ==
    {u \in DOMAIN users : users[u].verification_token = tok}
ByResetToken(tok) == {u \in DOMAIN users : users[u].reset_token = tok}

One(S) == CHOOSE x \in S : TRUE

-----------------------------------------------------------------------------
(* Responses *)

\* the guardrail columns of the row a handler loaded
NoPre == [ failed_login_attempts |-> None, last_failed_login |-> None,
           account_locked_until |-> None ]

Guardrail(user) ==
    [ failed_login_attempts |-> user.failed_login_attempts,
      last_failed_login |-> user.last_failed_login,
      account_locked_until |-> user.account_locked_until ]

Response(op, req, status, detail) ==
    [ op |-> op, req |-> req, status |-> status, detail |-> detail,
      minutes |-> None, uid |-> None, role |-> NoneStr, pre |-> NoPre,
      mail |-> "none",
      access_token |-> NoAccess, refresh_token |-> None ]

NoResponse == Response("none", <<>>, 0, "")

-----------------------------------------------------------------------------
(* Login guardrail: src/utils/rate_limit.py *)

Allowed(user) == [is_allowed |-> TRUE, message |-> "", minutes |-> None, user |-> user]

Denied(user, message, minutes) ==
    [is_allowed |-> FALSE, message |-> message, minutes |-> minutes, user |-> user]

\* check_rate_limit(user): the verdict and the row as the call leaves it in
\* the session (not committed by the call itself)
\* the guardrail without the branch of lines 24-28
MutLockNeverExpires(user, t) ==
    IF user.account_locked_until # None
    THEN Denied(user, "Account locked. Try again in N minutes.",
                user.account_locked_until - t)
    ELSE IF /\ user.last_failed_login # None
            /\ t - user.last_failed_login > LOGIN_RATE_LIMIT_WINDOW_MINUTES
    THEN Allowed([user EXCEPT !.failed_login_attempts = 0])
    ELSE IF user.failed_login_attempts >= LOGIN_RATE_LIMIT_ATTEMPTS
    THEN Denied([user EXCEPT !.account_locked_until = t + ACCOUNT_LOCKOUT_MINUTES],
                "Too many failed attempts. Account locked for N minutes.",
                ACCOUNT_LOCKOUT_MINUTES)
    ELSE Allowed(user)

\* the guardrail without the branch of lines 30-37
MutNoWindowReset(user, t) ==
    IF user.account_locked_until # None /\ user.account_locked_until > t
    THEN Denied(user, "Account locked. Try again in N minutes.",
                user.account_locked_until - t)
    ELSE IF user.account_locked_until # None /\ user.account_locked_until <= t
    THEN Allowed([user EXCEPT !.account_locked_until = None,
                              !.failed_login_attempts = 0])
    ELSE IF user.failed_login_attempts >= LOGIN_RATE_LIMIT_ATTEMPTS
    THEN Denied([user EXCEPT !.account_locked_until = t + ACCOUNT_LOCKOUT_MINUTES],
                "Too many failed attempts. Account locked for N minutes.",
                ACCOUNT_LOCKOUT_MINUTES)
    ELSE Allowed(user)

\* the guardrail with the comparisons of lines 20 and 24 shifted by one
\* instant: the lock still rejects at its expiry time
MutLockExpiresLate(user, t) ==
    IF user.account_locked_until # None /\ user.account_locked_until >= t
    THEN Denied(user, "Account locked. Try again in N minutes.",
                user.account_locked_until - t)
    ELSE IF user.account_locked_until # None /\ user.account_locked_until < t
    THEN Allowed([user EXCEPT !.account_locked_until = None,
                              !.failed_login_attempts = 0])
    ELSE IF /\ user.last_failed_login # None
            /\ t - user.last_failed_login > LOGIN_RATE_LIMIT_WINDOW_MINUTES
    THEN Allowed([user EXCEPT !.failed_login_attempts = 0])
    ELSE IF user.failed_login_attempts >= LOGIN_RATE_LIMIT_ATTEMPTS
    THEN Denied([user EXCEPT !.account_locked_until = t + ACCOUNT_LOCKOUT_MINUTES],
                "Too many failed attempts. Account locked for N minutes.",
                ACCOUNT_LOCKOUT_MINUTES)
    ELSE Allowed(user)

check_rate_limit(user, t) ==
    IF user.account_locked_until # None /\ user.account_locked_until > t
    THEN Denied(user, "Account locked. Try again in N minutes.",
                user.account_locked_until - t)
    ELSE IF user.account_locked_until # None /\ user.account_locked_until <= t
    THEN Allowed([user EXCEPT !.account_locked_until = None,
                              !.failed_login_attempts = 0])
    ELSE IF /\ user.last_failed_login # None
            /\ t - user.last_failed_login > LOGIN_RATE_LIMIT_WINDOW_MINUTES
    THEN Allowed([user EXCEPT !.failed_login_attempts = 0])
    ELSE IF user.failed_login_attempts >= LOGIN_RATE_LIMIT_ATTEMPTS
    THEN Denied([user EXCEPT !.account_locked_until = t + ACCOUNT_LOCKOUT_MINUTES],
                "Too many failed attempts. Account locked for N minutes.",
                ACCOUNT_LOCKOUT_MINUTES)
    ELSE Allowed(user)

MutRecordKeepsTimestamp(user, t) ==
    LET n == user.failed_login_attempts + 1 IN
    [user EXCEPT !.failed_login_attempts = n,
                 !.account_locked_until =
                     IF n >= LOGIN_RATE_LIMIT_ATTEMPTS
                     THEN t + ACCOUNT_LOCKOUT_MINUTES ELSE @]

MutRecordNoLock(user, t) ==
    [user EXCEPT !.failed_login_attempts = @ + 1, !.last_failed_login = t]

\* record_failed_login(user, db), before its commit
record_failed_login(user, t) ==
    LET n == user.failed_login_attempts + 1 IN
    [user EXCEPT !.failed_login_attempts = n,
                 !.last_failed_login = t,
                 !.account_locked_until =
                     IF n >= LOGIN_RATE_LIMIT_ATTEMPTS
                     THEN t + ACCOUNT_LOCKOUT_MINUTES ELSE @]

MutResetKeepsCounter(user) ==
    [user EXCEPT !.last_failed_login = None, !.account_locked_until = None]

\* reset_failed_attempts(user, db), before its commit
reset_failed_attempts(user) ==
    [user EXCEPT !.failed_login_attempts = 0,
                 !.last_failed_login = None,
                 !.account_locked_until = None]

-----------------------------------------------------------------------------
(* Refresh token ledger: src/routers/auth.py create_refresh_token *)

generate_token == next_token

NewRefreshToken(token, user_id, t, device_info) ==
    [ token |-> token, user_id |-> user_id,
      expires_at |-> t + days(REFRESH_TOKEN_EXPIRE_DAYS),
      is_revoked |-> FALSE, device_info |-> device_info ]

ByToken(token) == {r \in refresh_tokens : r.token = token}

-----------------------------------------------------------------------------
(* History of failed logins, kept beside the program's state *)

NoStreak == [n |-> 0, at |-> None]

StreakAfterFailure(s, t) ==
    [ n |-> IF s.n > 0 /\ t - s.at <= LOGIN_RATE_LIMIT_WINDOW_MINUTES
            THEN s.n + 1 ELSE 1,
      at |-> t ]

-----------------------------------------------------------------------------
(* POST /auth/login: src/routers/auth.py login *)

MutLoginRevealsUnknown(email, password) ==
    /\ ByEmail(email) = {}
    /\ resp' = Response("login", <<email, password>>, 404, "User not found")
    /\ UNCHANGED <<users, refresh_tokens, access_tokens, next_token, streak>>

LoginUnknown(email, password) ==
    /\ ByEmail(email) = {}
    /\ resp' = Response("login", <<email, password>>, 401,
                        "Incorrect email or password")
    /\ UNCHANGED <<users, refresh_tokens, access_tokens, next_token, streak>>

\* a rejection that counts as one more failure of the account it rejects
MutLockedCounts(email, password) ==
    /\ ByEmail(email) # {}
    /\ LET u == One(ByEmail(email))
           rl == check_rate_limit(users[u], now)
       IN /\ ~rl.is_allowed
          /\ users' = [users EXCEPT ![u] = record_failed_login(@, now)]
          /\ resp' = [Response("login", <<email, password>>, 429, rl.message)
                        EXCEPT !.minutes = rl.minutes, !.uid = u,
                               !.pre = Guardrail(users[u])]
    /\ UNCHANGED <<refresh_tokens, access_tokens, next_token, streak>>

LoginRateLimited(email, password) ==
    /\ ByEmail(email) # {}
    /\ LET u == One(ByEmail(email))
           rl == check_rate_limit(users[u], now)
       IN /\ ~rl.is_allowed
          /\ resp' = [Response("login", <<email, password>>, 429, rl.message)
                        EXCEPT !.minutes = rl.minutes, !.uid = u,
                               !.pre = Guardrail(users[u])]
    /\ UNCHANGED <<users, refresh_tokens, access_tokens, next_token, streak>>

LoginWrongPassword(email, password) ==
    /\ ByEmail(email) # {}
    /\ LET u == One(ByEmail(email))
           rl == check_rate_limit(users[u], now)
       IN /\ rl.is_allowed
          /\ ~verify_password(password, rl.user.hashed_password)
          /\ users' = [users EXCEPT ![u] = record_failed_login(rl.user, now)]
          /\ streak' = [streak EXCEPT ![u] = StreakAfterFailure(@, now)]
          /\ resp' = [Response("login", <<email, password>>, 401,
                               "Incorrect email or password")
                        EXCEPT !.uid = u, !.pre = Guardrail(users[u])]
    /\ UNCHANGED <<refresh_tokens, access_tokens, next_token>>

LoginInactive(email, password) ==
    /\ ByEmail(email) # {}
    /\ LET u == One(ByEmail(email))
           rl == check_rate_limit(users[u], now)
       IN /\ rl.is_allowed
          /\ verify_password(password, rl.user.hashed_password)
          /\ ~rl.user.is_active
          /\ resp' = [Response("login", <<email, password>>, 400,
                               "Inactive user account")
                        EXCEPT !.uid = u, !.pre = Guardrail(users[u])]
    /\ UNCHANGED <<users, refresh_tokens, access_tokens, next_token, streak>>

LoginSuccess(email, password, user_agent) ==
    /\ ByEmail(email) # {}
    /\ next_token <= MaxTokens
    /\ CanHandOut(create_access_token(One(ByEmail(email)), now))
    /\ LET u == One(ByEmail(email))
           rl == check_rate_limit(users[u], now)
           access_token == create_access_token(u, now)
           refresh_token == generate_token
       IN /\ rl.is_allowed
          /\ verify_password(password, rl.user.hashed_password)
          /\ rl.user.is_active
          /\ users' = [users EXCEPT ![u] = reset_failed_attempts(rl.user)]
          /\ streak' = [streak EXCEPT ![u] = NoStreak]
          /\ refresh_tokens' = refresh_tokens \cup
                 {NewRefreshToken(refresh_token, u, now, user_agent)}
          /\ next_token' = next_token + 1
          /\ access_tokens' = access_tokens \cup {access_token}
          /\ resp' = [Response("login", <<email, password>>, 200, "")
                        EXCEPT !.uid = u, !.pre = Guardrail(users[u]),
                               !.access_token = access_token,
                               !.refresh_token = refresh_token]

Login(email, password, user_agent) ==
    /\ \/ LoginUnknown(email, password)
       \/ LoginRateLimited(email, password)
       \/ LoginWrongPassword(email, password)
       \/ LoginInactive(email, password)
       \/ LoginSuccess(email, password, user_agent)
    /\ UNCHANGED <<now, consumed, sess, gate, oauth_states>>

-----------------------------------------------------------------------------
(* Bearer authentication: src/routers/auth.py *)

AuthOk(uid) == [ok |-> TRUE, uid |-> uid, status |-> 200, detail |-> ""]
AuthError(status, detail) ==
    [ok |-> FALSE, uid |-> None, status |-> status, detail |-> detail]

MutAuthNeedsSession(token, t) ==
    IF ~token.signed \/ token.exp < t \/ token.sub = None
       \/ token.sub \notin DOMAIN users
       \/ ~\E r \in refresh_tokens : r.user_id = token.sub /\ ~r.is_revoked
    THEN AuthError(401, "Could not validate credentials")
    ELSE AuthOk(token.sub)

\* jwt.decode raises JWTError on a bad signature and on exp < now
get_current_user(token, t) ==
    IF ~token.signed \/ token.exp < t \/ token.sub = None
       \/ token.sub \notin DOMAIN users
    THEN AuthError(401, "Could not validate credentials")
    ELSE AuthOk(token.sub)

MutUserAtIssue(uid) ==
    [users[uid] EXCEPT !.role = IF uid = 1 THEN ADMIN ELSE USER,
                       !.is_active = TRUE,
                       !.is_verified = FALSE]

\* the row get_current_user returns: loaded by the request itself
CurrentUser(uid) == users[uid]

get_current_active_user(token, t) ==
    LET cu == get_current_user(token, t) IN
    IF ~cu.ok THEN cu
    ELSE IF ~CurrentUser(cu.uid).is_active THEN AuthError(400, "Inactive user")
    ELSE cu

get_current_verified_user(token, t) ==
    LET cu == get_current_active_user(token, t) IN
    IF ~cu.ok THEN cu
    ELSE IF ~CurrentUser(cu.uid).is_verified
    THEN AuthError(403, "Email not verified. Please verify your email first.")
    ELSE cu

-----------------------------------------------------------------------------
(* POST /auth/refresh and POST /auth/logout *)

MutRefreshExpiryFirst(token) ==
    IF ByToken(token) = {}
    THEN Response("refresh", <<token>>, 401, "Invalid refresh token")
    ELSE LET rt == One(ByToken(token)) IN
         IF rt.expires_at < now
         THEN Response("refresh", <<token>>, 401, "Refresh token has expired")
         ELSE IF rt.is_revoked
         THEN Response("refresh", <<token>>, 401, "Refresh token has been revoked")
         ELSE IF rt.user_id \notin DOMAIN users \/ ~users[rt.user_id].is_active
         THEN Response("refresh", <<token>>, 401, "User not found or inactive")
         ELSE [Response("refresh", <<token>>, 200, "")
                 EXCEPT !.uid = rt.user_id,
                        !.access_token = create_access_token(rt.user_id, now)]

MutRefreshRotates(token) ==
    (refresh_tokens \ ByToken(token)) \cup
    {[r EXCEPT !.is_revoked = TRUE] : r \in ByToken(token)}

\* refresh_access_token writes nothing: the ledger after the request
LedgerAfterRefresh(token) == refresh_tokens

\* refresh_access_token: the response to a request carrying `token`
refresh_access_token(token) ==
    IF ByToken(token) = {}
    THEN Response("refresh", <<token>>, 401, "Invalid refresh token")
    ELSE LET rt == One(ByToken(token)) IN
         IF rt.is_revoked
         THEN Response("refresh", <<token>>, 401, "Refresh token has been revoked")
         ELSE IF rt.expires_at < now
         THEN Response("refresh", <<token>>, 401, "Refresh token has expired")
         ELSE IF rt.user_id \notin DOMAIN users \/ ~users[rt.user_id].is_active
         THEN Response("refresh", <<token>>, 401, "User not found or inactive")
         ELSE [Response("refresh", <<token>>, 200, "")
                 EXCEPT !.uid = rt.user_id,
                        !.access_token = create_access_token(rt.user_id, now)]

RefreshAccessToken(token) ==
    /\ LET r == refresh_access_token(token)
       IN /\ r.status = 200 => CanHandOut(r.access_token)
          /\ resp' = r
          /\ access_tokens' = IF r.status = 200
                              THEN access_tokens \cup {r.access_token}
                              ELSE access_tokens
          /\ refresh_tokens' = IF r.status = 200
                               THEN LedgerAfterRefresh(token)
                               ELSE refresh_tokens
    /\ UNCHANGED <<users, now, next_token, streak, consumed, sess, gate,
                   oauth_states>>

MutOwnedByAnyone(token, user_id) == ByToken(token)

\* logout: the rows RefreshToken.token == token and user_id == current_user.uid
OwnedBy(token, user_id) == {r \in ByToken(token) : r.user_id = user_id}

\* logout that deletes the row instead of flagging it
MutLogoutDeletes(access_token, token) ==
    /\ LET cu == get_current_active_user(access_token, now)
           mine == OwnedBy(token, cu.uid)
       IN IF ~cu.ok
          THEN /\ resp' = Response("logout", <<token>>, cu.status, cu.detail)
               /\ UNCHANGED refresh_tokens
          ELSE /\ refresh_tokens' = refresh_tokens \ mine
               /\ resp' = [Response("logout", <<token>>, 200,
                                    "Successfully logged out")
                             EXCEPT !.uid = cu.uid]
    /\ UNCHANGED <<users, access_tokens, now, next_token, streak, consumed,
                   sess, gate, oauth_states>>

Logout(access_token, token) ==
    /\ LET cu == get_current_active_user(access_token, now)
           mine == OwnedBy(token, cu.uid)
       IN IF ~cu.ok
          THEN /\ resp' = Response("logout", <<token>>, cu.status, cu.detail)
               /\ UNCHANGED refresh_tokens
          ELSE /\ refresh_tokens' =
                     (refresh_tokens \ mine) \cup
                     {[r EXCEPT !.is_revoked = TRUE] : r \in mine}
               /\ resp' = [Response("logout", <<token>>, 200,
                                    "Successfully logged out")
                             EXCEPT !.uid = cu.uid]
    /\ UNCHANGED <<users, access_tokens, now, next_token, streak, consumed,
                   sess, gate, oauth_states>>

-----------------------------------------------------------------------------
(* Role gates: src/utils/rbac.py *)

role_hierarchy == (USER :> 0) @@ (MODERATOR :> 1) @@ (ADMIN :> 2)

\* role_hierarchy.get(role, 0)
Level(role) == IF role \in DOMAIN role_hierarchy THEN role_hierarchy[role] ELSE 0

check_permission(user, required_role) == Level(user.role) >= Level(required_role)

MutRequireAdminLetsModerator(current_user) ==
    IF current_user.role \notin {MODERATOR, ADMIN}
    THEN AuthError(403, "Admin access required")
    ELSE AuthOk(None)

\* require_admin: PermissionDenied (403) unless the role is ADMIN
require_admin(current_user) ==
    IF current_user.role # ADMIN
    THEN AuthError(403, "Admin access required")
    ELSE AuthOk(None)

require_moderator_or_admin(current_user) ==
    IF current_user.role \notin {MODERATOR, ADMIN}
    THEN AuthError(403, "Moderator or Admin access required")
    ELSE AuthOk(None)

\* the three gates applied to one account and one required role
CheckGates(uid, required_role) ==
    /\ uid \in DOMAIN users
    /\ gate' = [ evaluated |-> TRUE,
                 role |-> users[uid].role,
                 required_role |-> required_role,
                 check_permission |-> check_permission(users[uid], required_role),
                 require_admin |-> require_admin(users[uid]).ok,
                 require_moderator_or_admin |->
                     require_moderator_or_admin(users[uid]).ok ]
    /\ UNCHANGED <<users, refresh_tokens, access_tokens, now, next_token, resp,
                   streak, consumed, sess, oauth_states>>

-----------------------------------------------------------------------------
(* Admin endpoints: src/routers/auth.py.  current_user is the account the  *)
(* bearer token names (get_current_user), handed to the role gate.         *)

Caller(op, req, access_token, r) ==
    [Response(op, req, r.status, r.detail)
       EXCEPT !.uid = access_token.sub,
              !.role = IF access_token.sub \in DOMAIN users
                       THEN users[access_token.sub].role ELSE NoneStr]

\* GET /auth/admin/users
ListAllUsers(access_token) ==
    /\ LET cu == get_current_user(access_token, now)
           g == IF cu.ok THEN require_admin(CurrentUser(cu.uid)) ELSE cu
       IN resp' = IF ~cu.ok
                  THEN Response("list_all_users", <<>>, cu.status, cu.detail)
                  ELSE IF ~g.ok
                  THEN Caller("list_all_users", <<>>, access_token, g)
                  ELSE Caller("list_all_users", <<>>, access_token,
                              AuthOk(cu.uid))
    /\ UNCHANGED <<users, refresh_tokens, access_tokens, now, next_token,
                   streak, consumed, sess, gate, oauth_states>>

\* PATCH /auth/admin/users/{user_id}/role
UpdateUserRole(access_token, user_id, role) ==
    /\ LET cu == get_current_user(access_token, now)
           g == IF cu.ok THEN require_admin(CurrentUser(cu.uid)) ELSE cu
           op == "update_user_role"
       IN IF ~cu.ok
          THEN /\ resp' = Response(op, <<user_id, role>>, cu.status, cu.detail)
               /\ UNCHANGED users
          ELSE IF ~g.ok
          THEN /\ resp' = Caller(op, <<user_id, role>>, access_token, g)
               /\ UNCHANGED users
          ELSE IF user_id \notin DOMAIN users
          THEN /\ resp' = Caller(op, <<user_id, role>>, access_token,
                                 AuthError(404, "User not found"))
               /\ UNCHANGED users
          ELSE /\ users' = [users EXCEPT ![user_id].role = role]
               /\ resp' = Caller(op, <<user_id, role>>, access_token,
                                 [AuthOk(cu.uid) EXCEPT !.detail = "User role updated"])
    /\ UNCHANGED <<refresh_tokens, access_tokens, now, next_token, streak,
                   consumed, sess, gate, oauth_states>>

MutNeverSelf(user_uid, current_uid) == FALSE

\* deactivate_user: user.uid == current_user.uid
IsSelf(user_uid, current_uid) == user_uid = current_uid

\* PATCH /auth/admin/users/{user_id}/deactivate
DeactivateUser(access_token, user_id) ==
    /\ LET cu == get_current_user(access_token, now)
           g == IF cu.ok THEN require_moderator_or_admin(CurrentUser(cu.uid)) ELSE cu
           op == "deactivate_user"
       IN IF ~cu.ok
          THEN /\ resp' = Response(op, <<user_id>>, cu.status, cu.detail)
               /\ UNCHANGED users
          ELSE IF ~g.ok
          THEN /\ resp' = Caller(op, <<user_id>>, access_token, g)
               /\ UNCHANGED users
          ELSE IF user_id \notin DOMAIN users
          THEN /\ resp' = Caller(op, <<user_id>>, access_token,
                                 AuthError(404, "User not found"))
               /\ UNCHANGED users
          ELSE IF IsSelf(user_id, cu.uid)
          THEN /\ resp' = Caller(op, <<user_id>>, access_token,
                        AuthError(400, "Cannot deactivate your own account"))
               /\ UNCHANGED users
          ELSE /\ users' = [users EXCEPT ![user_id].is_active = FALSE]
               /\ resp' = Caller(op, <<user_id>>, access_token,
                        [AuthOk(cu.uid) EXCEPT
                            !.detail = "User deactivated successfully"])
    /\ UNCHANGED <<refresh_tokens, access_tokens, now, next_token, streak,
                   consumed, sess, gate, oauth_states>>

-----------------------------------------------------------------------------
(* One-time token workflow: src/routers/auth.py *)

\* the outcome of an awaited send_*_email call, whose exception is caught
\* (reset_password awaits send_password_changed_notification, which
\* src/utils/email.py does not define; the call is in the same try block)
Mail(send_ok) == IF send_ok THEN "sent" ELSE "failed"

MutNeverExpired(expiry, t) == FALSE

\* user.verification_token_expiry < datetime.utcnow(), and the same test on
\* reset_token_expiry
TokenExpired(expiry, t) == expiry < t

MutForgotRevealsUnknown(email) ==
    /\ ByEmail(email) = {}
    /\ resp' = Response("forgot_password", <<email>>, 404, "User not found")
    /\ UNCHANGED <<users, next_token>>

\* POST /auth/forgot-password
ForgotPasswordUnknown(email) ==
    /\ ByEmail(email) = {}
    /\ resp' = Response("forgot_password", <<email>>, 200,
                        "If the email exists, a password reset link has been sent")
    /\ UNCHANGED <<users, next_token>>

\* forgot-password that leaves an outstanding token in place
MutForgotKeepsOutstanding(email, send_ok) ==
    /\ ByEmail(email) # {}
    /\ next_token <= MaxTokens
    /\ LET u == One(ByEmail(email))
           reset_token == IF users[u].reset_token # None
                          THEN users[u].reset_token ELSE generate_token
       IN /\ users' = [users EXCEPT
                 ![u].reset_token = reset_token,
                 ![u].reset_token_expiry = now + hours(RESET_TOKEN_EXPIRE_HOURS)]
          /\ resp' = [Response("forgot_password", <<email>>, 200,
                        "If the email exists, a password reset link has been sent")
                        EXCEPT !.uid = u, !.mail = Mail(send_ok)]
    /\ next_token' = next_token + 1

ForgotPasswordIssue(email, send_ok) ==
    /\ ByEmail(email) # {}
    /\ next_token <= MaxTokens
    /\ LET u == One(ByEmail(email))
           reset_token == generate_token
       IN /\ users' = [users EXCEPT
                 ![u].reset_token = reset_token,
                 ![u].reset_token_expiry = now + hours(RESET_TOKEN_EXPIRE_HOURS)]
          /\ resp' = [Response("forgot_password", <<email>>, 200,
                        "If the email exists, a password reset link has been sent")
                        EXCEPT !.uid = u, !.mail = Mail(send_ok)]
    /\ next_token' = next_token + 1

ForgotPassword(email, send_ok) ==
    /\ \/ ForgotPasswordUnknown(email)
       \/ ForgotPasswordIssue(email, send_ok)
    /\ UNCHANGED <<refresh_tokens, access_tokens, now, streak, consumed, sess, gate,
                   oauth_states>>

\* POST /auth/reset-password
ResetPasswordInvalid(token, new_password) ==
    /\ ByResetToken(token) = {}
    /\ resp' = Response("reset_password", <<token>>, 400,
                        "Invalid reset token")
    /\ UNCHANGED <<users, streak, consumed>>

ResetPasswordExpired(token, new_password) ==
    /\ ByResetToken(token) # {}
    /\ LET u == One(ByResetToken(token))
       IN /\ TokenExpired(users[u].reset_token_expiry, now)
          /\ resp' = [Response("reset_password", <<token>>, 400,
                               "Reset token has expired") EXCEPT !.uid = u]
    /\ UNCHANGED <<users, streak, consumed>>

MutResetSendPropagates(token, new_password, send_ok) ==
    /\ ByResetToken(token) # {}
    /\ LET u == One(ByResetToken(token))
       IN /\ ~TokenExpired(users[u].reset_token_expiry, now)
          /\ users' = [users EXCEPT
                 ![u].hashed_password = get_password_hash(new_password),
                 ![u].reset_token = None,
                 ![u].reset_token_expiry = None,
                 ![u].failed_login_attempts = 0]
          /\ streak' = [streak EXCEPT ![u] = NoStreak]
          /\ consumed' = consumed (+) SetToBag({<<"reset", token>>})
          /\ resp' = [Response("reset_password", <<token>>,
                               IF send_ok THEN 200 ELSE 500,
                               IF send_ok THEN "Password reset successfully"
                               ELSE "Internal Server Error")
                        EXCEPT !.uid = u, !.mail = Mail(send_ok)]

\* reset-password that also wipes the verification token
MutResetClearsBoth(token, new_password, send_ok) ==
    /\ ByResetToken(token) # {}
    /\ LET u == One(ByResetToken(token))
       IN /\ ~TokenExpired(users[u].reset_token_expiry, now)
          /\ users' = [users EXCEPT
                 ![u].hashed_password = get_password_hash(new_password),
                 ![u].reset_token = None,
                 ![u].reset_token_expiry = None,
                 ![u].verification_token = None,
                 ![u].verification_token_expiry = None,
                 ![u].failed_login_attempts = 0]
          /\ streak' = [streak EXCEPT ![u] = NoStreak]
          /\ consumed' = consumed (+) SetToBag({<<"reset", token>>})
          /\ resp' = [Response("reset_password", <<token>>, 200,
                               "Password reset successfully")
                        EXCEPT !.uid = u, !.mail = Mail(send_ok)]

MutResetUnlocks(token, new_password, send_ok) ==
    /\ ByResetToken(token) # {}
    /\ LET u == One(ByResetToken(token))
       IN /\ ~TokenExpired(users[u].reset_token_expiry, now)
          /\ users' = [users EXCEPT
                 ![u].hashed_password = get_password_hash(new_password),
                 ![u].reset_token = None,
                 ![u].reset_token_expiry = None,
                 ![u].failed_login_attempts = 0,
                 ![u].last_failed_login = None,
                 ![u].account_locked_until = None]
          /\ streak' = [streak EXCEPT ![u] = NoStreak]
          /\ consumed' = consumed (+) SetToBag({<<"reset", token>>})
          /\ resp' = [Response("reset_password", <<token>>, 200,
                               "Password reset successfully")
                        EXCEPT !.uid = u, !.mail = Mail(send_ok)]

ResetPasswordDone(token, new_password, send_ok) ==
    /\ ByResetToken(token) # {}
    /\ LET u == One(ByResetToken(token))
       IN /\ ~TokenExpired(users[u].reset_token_expiry, now)
          /\ users' = [users EXCEPT
                 ![u].hashed_password = get_password_hash(new_password),
                 ![u].reset_token = None,
                 ![u].reset_token_expiry = None,
                 ![u].failed_login_attempts = 0]
          /\ streak' = [streak EXCEPT ![u] = NoStreak]
          /\ consumed' = consumed (+) SetToBag({<<"reset", token>>})
          /\ resp' = [Response("reset_password", <<token>>, 200,
                               "Password reset successfully")
                        EXCEPT !.uid = u, !.mail = Mail(send_ok)]

ResetPassword(token, new_password, send_ok) ==
    /\ \/ ResetPasswordInvalid(token, new_password)
       \/ ResetPasswordExpired(token, new_password)
       \/ ResetPasswordDone(token, new_password, send_ok)
    /\ UNCHANGED <<refresh_tokens, access_tokens, now, next_token, sess, gate,
                   oauth_states>>

\* POST /auth/register
RegisterUserTaken(username, email) ==
    /\ ByUsername(username) # {} \/ ByEmail(email) # {}
    /\ resp' = Response("register_user", <<username, email>>, 400,
                        IF ByUsername(username) # {}
                        THEN "Username already registered"
                        ELSE "Email already registered")
    /\ UNCHANGED <<users, next_token>>

RegisterUserCreate(username, email, password, send_ok) ==
    /\ ByUsername(username) = {} /\ ByEmail(email) = {}
    /\ Cardinality(DOMAIN users) < MaxUsers
    /\ next_token <= MaxTokens
    /\ LET uid == Cardinality(DOMAIN users) + 1
           verification_token == generate_token
           token_expiry == now + hours(VERIFICATION_TOKEN_EXPIRE_HOURS)
       IN /\ users' = users @@ (uid :> NewUser(username, email,
                                    get_password_hash(password), FALSE,
                                    verification_token, token_expiry))
          /\ resp' = [Response("register_user", <<username, email>>, 201, "")
                        EXCEPT !.uid = uid, !.mail = Mail(send_ok)]
    /\ next_token' = next_token + 1

RegisterUser(username, email, password, send_ok) ==
    /\ \/ RegisterUserTaken(username, email)
       \/ RegisterUserCreate(username, email, password, send_ok)
    /\ UNCHANGED <<refresh_tokens, access_tokens, now, streak, consumed, sess, gate,
                   oauth_states>>

MutVerifyKeepsToken(user) == [user EXCEPT !.is_verified = TRUE]

MutVerifyReactivates(user) ==
    [user EXCEPT !.is_verified = TRUE,
                 !.is_active = TRUE,
                 !.verification_token = None,
                 !.verification_token_expiry = None]

MutVerifyKeepsExpiry(user) ==
    [user EXCEPT !.is_verified = TRUE, !.verification_token = None]

\* verify_email: the row as the handler commits it
MarkVerified(user) ==
    [user EXCEPT !.is_verified = TRUE,
                 !.verification_token = None,
                 !.verification_token_expiry = None]

\* POST /auth/verify-email
VerifyEmailInvalid(token) ==
    /\ ByVerificationToken(token) = {}
    /\ resp' = Response("verify_email", <<token>>, 400,
                        "Invalid verification token")
    /\ UNCHANGED <<users, consumed>>

VerifyEmailExpired(token) ==
    /\ ByVerificationToken(token) # {}
    /\ LET u == One(ByVerificationToken(token))
       IN /\ TokenExpired(users[u].verification_token_expiry, now)
          /\ resp' = [Response("verify_email", <<token>>, 400,
                               "Verification token has expired") EXCEPT !.uid = u]
    /\ UNCHANGED <<users, consumed>>

VerifyEmailDone(token) ==
    /\ ByVerificationToken(token) # {}
    /\ LET u == One(ByVerificationToken(token))
       IN /\ ~TokenExpired(users[u].verification_token_expiry, now)
          /\ users' = [users EXCEPT ![u] = MarkVerified(@)]
          /\ consumed' = consumed (+) SetToBag({<<"verify", token>>})
          /\ resp' = [Response("verify_email", <<token>>, 200,
                               "Email verified successfully") EXCEPT !.uid = u]

VerifyEmail(token) ==
    /\ \/ VerifyEmailInvalid(token)
       \/ VerifyEmailExpired(token)
       \/ VerifyEmailDone(token)
    /\ UNCHANGED <<refresh_tokens, access_tokens, now, next_token, streak,
                   sess, gate, oauth_states>>

\* POST /auth/resend-verification
ResendVerificationUnknown(email) ==
    /\ ByEmail(email) = {}
    /\ resp' = Response("resend_verification_email", <<email>>, 200,
                        "If the email exists, a verification link has been sent")
    /\ UNCHANGED <<users, next_token>>

ResendVerificationVerified(email) ==
    /\ ByEmail(email) # {}
    /\ LET u == One(ByEmail(email))
       IN /\ users[u].is_verified
          /\ resp' = [Response("resend_verification_email", <<email>>, 200,
                               "Email already verified") EXCEPT !.uid = u]
    /\ UNCHANGED <<users, next_token>>

ResendVerificationIssue(email, send_ok) ==
    /\ ByEmail(email) # {}
    /\ next_token <= MaxTokens
    /\ LET u == One(ByEmail(email))
           verification_token == generate_token
       IN /\ ~users[u].is_verified
          /\ users' = [users EXCEPT
                 ![u].verification_token = verification_token,
                 ![u].verification_token_expiry =
                     now + hours(VERIFICATION_TOKEN_EXPIRE_HOURS)]
          /\ resp' = [Response("resend_verification_email", <<email>>, 200,
                        "If the email exists, a verification link has been sent")
                        EXCEPT !.uid = u, !.mail = Mail(send_ok)]
    /\ next_token' = next_token + 1

ResendVerification(email, send_ok) ==
    /\ \/ ResendVerificationUnknown(email)
       \/ ResendVerificationVerified(email)
       \/ ResendVerificationIssue(email, send_ok)
    /\ UNCHANGED <<refresh_tokens, access_tokens, now, streak, consumed, sess, gate,
                   oauth_states>>


-----------------------------------------------------------------------------
(* Self-service endpoints: src/routers/auth.py *)

\* GET /auth/me
ReadUsersMe(access_token) ==
    /\ LET cu == get_current_active_user(access_token, now)
       IN resp' = IF ~cu.ok
                  THEN Response("read_users_me", <<>>, cu.status, cu.detail)
                  ELSE Caller("read_users_me", <<>>, access_token, cu)
    /\ UNCHANGED <<users, refresh_tokens, access_tokens, now, next_token,
                   streak, consumed, sess, gate, oauth_states>>

\* GET /auth/users/{user_id}
ReadUser(access_token, user_id) ==
    /\ LET cu == get_current_verified_user(access_token, now)
       IN resp' = IF ~cu.ok
                  THEN Response("read_user", <<user_id>>, cu.status, cu.detail)
                  ELSE IF user_id \notin DOMAIN users
                  THEN Caller("read_user", <<user_id>>, access_token,
                              AuthError(404, "User not found"))
                  ELSE Caller("read_user", <<user_id>>, access_token, cu)
    /\ UNCHANGED <<users, refresh_tokens, access_tokens, now, next_token,
                   streak, consumed, sess, gate, oauth_states>>

\* POST /auth/change-password
\* a password change that also revokes the caller's refresh tokens
MutChangePasswordRevokes(access_token, old_password, new_password, send_ok) ==
    /\ LET cu == get_current_active_user(access_token, now)
           req == <<old_password, new_password>>
       IN IF ~cu.ok
          THEN /\ resp' = Response("change_password", req, cu.status, cu.detail)
               /\ UNCHANGED <<users, refresh_tokens>>
          ELSE IF ~verify_password(old_password,
                                   CurrentUser(cu.uid).hashed_password)
          THEN /\ resp' = Caller("change_password", req, access_token,
                                 AuthError(400, "Incorrect current password"))
               /\ UNCHANGED <<users, refresh_tokens>>
          ELSE /\ users' = [users EXCEPT ![cu.uid].hashed_password =
                                            get_password_hash(new_password)]
               /\ refresh_tokens' =
                      {IF rt.user_id = cu.uid
                       THEN [rt EXCEPT !.is_revoked = TRUE] ELSE rt :
                          rt \in refresh_tokens}
               /\ resp' = [Caller("change_password", req, access_token,
                                  [cu EXCEPT !.detail =
                                       "Password changed successfully"])
                             EXCEPT !.mail = Mail(send_ok)]
    /\ UNCHANGED <<access_tokens, now, next_token, streak,
                   consumed, sess, gate, oauth_states>>

ChangePassword(access_token, old_password, new_password, send_ok) ==
    /\ LET cu == get_current_active_user(access_token, now)
           req == <<old_password, new_password>>
       IN IF ~cu.ok
          THEN /\ resp' = Response("change_password", req, cu.status, cu.detail)
               /\ UNCHANGED users
          ELSE IF ~verify_password(old_password,
                                   CurrentUser(cu.uid).hashed_password)
          THEN /\ resp' = Caller("change_password", req, access_token,
                                 AuthError(400, "Incorrect current password"))
               /\ UNCHANGED users
          ELSE /\ users' = [users EXCEPT ![cu.uid].hashed_password =
                                            get_password_hash(new_password)]
               /\ resp' = [Caller("change_password", req, access_token,
                                  [cu EXCEPT !.detail =
                                       "Password changed successfully"])
                             EXCEPT !.mail = Mail(send_ok)]
    /\ UNCHANGED <<refresh_tokens, access_tokens, now, next_token, streak,
                   consumed, sess, gate, oauth_states>>

-----------------------------------------------------------------------------
(* The clock *)

TickMinute ==
    /\ now + TickStep <= MaxMinutes
    /\ now' = now + TickStep
    /\ UNCHANGED <<users, refresh_tokens, access_tokens, next_token, resp,
                   streak, consumed, sess, gate, oauth_states>>

-----------------------------------------------------------------------------
(* The store after POST /auth/register of one account at time t *)

Registered(username, email, password, t, token) ==
    NewUser(username, email, get_password_hash(password), FALSE,
            token, t + hours(VERIFICATION_TOKEN_EXPIRE_HOURS))

Uids == 1..MaxUsers

NoSess == <<>>
NoGate ==
    [ evaluated |-> FALSE, role |-> USER, required_role |-> USER,
      check_permission |-> FALSE, require_admin |-> FALSE,
      require_moderator_or_admin |-> FALSE ]

(* Login guardrail specification: one registered account (deactivated or  *)
(* not), logins with right and wrong passwords for it and for an unknown  *)
(* email, password resets, and the clock in minutes.                      *)
Init ==
    /\ \E active \in BOOLEAN :
          users = (1 :> [Registered("alice", "a@x.com", "pw", 0, SeedToken(1))
                           EXCEPT !.is_active = active])
    /\ refresh_tokens = {}
    /\ access_tokens = {}
    /\ now = 0
    /\ next_token = 1
    /\ resp = NoResponse
    /\ streak = [u \in Uids |-> NoStreak]
    /\ consumed = EmptyBag
    /\ sess = NoSess
    /\ gate = NoGate
    /\ oauth_states = {}

Next ==
    \/ \E email \in Emails, password \in Passwords, user_agent \in UserAgents :
          Login(email, password, user_agent)
    \/ \E email \in Emails : ForgotPassword(email, TRUE)
    \/ \E token \in TokenInputs : ResetPassword(token, "pw2", TRUE)
    \/ TickMinute

Spec == Init /\ [][Next]_vars

(* Token ledger specification: an admin and a user account, logins,       *)
(* refresh, logout, deactivation, and the clock in token lifetimes.        *)
\* the clock advances by one refresh-token lifetime
TickPeriod ==
    /\ now + days(REFRESH_TOKEN_EXPIRE_DAYS) <= MaxPeriods * days(REFRESH_TOKEN_EXPIRE_DAYS)
    /\ now' = now + days(REFRESH_TOKEN_EXPIRE_DAYS)
    /\ UNCHANGED <<users, refresh_tokens, access_tokens, next_token, resp,
                   streak, consumed, sess, gate, oauth_states>>

InitTokens ==
    /\ users = (1 :> [Registered("alice", "a@x.com", "pw", 0, SeedToken(1))
                        EXCEPT !.role = ADMIN])
            @@ (2 :> Registered("bob", "b@x.com", "pw2", 0, SeedToken(2)))
    /\ refresh_tokens = {}
    /\ access_tokens = {}
    /\ now = 0
    /\ next_token = 1
    /\ resp = NoResponse
    /\ streak = [u \in Uids |-> NoStreak]
    /\ consumed = EmptyBag
    /\ sess = NoSess
    /\ gate = NoGate
    /\ oauth_states = {}

AccessInputs == access_tokens \cup {Forged(1, now)}

\* the credentials presented under SpecTokens are the accounts' own
Credentials == {<<"a@x.com", "pw">>, <<"b@x.com", "pw2">>}

NextTokens ==
    \/ \E c \in Credentials, user_agent \in UserAgents :
          Login(c[1], c[2], user_agent)
    \/ \E token \in TokenInputs : RefreshAccessToken(token)
    \/ \E access_token \in AccessInputs, token \in TokenInputs :
          Logout(access_token, token)
    \/ \E access_token \in AccessInputs, user_id \in DOMAIN users :
          DeactivateUser(access_token, user_id)
    \/ TickPeriod

SpecTokens == InitTokens /\ [][NextTokens]_vars

-----------------------------------------------------------------------------
(* One-time token specification: one registered account (in good standing *)
(* or deactivated and locked out), a second one that may register,        *)
(* verification and reset tokens issued, consumed and left to expire; the *)
(* clock advances by the lifetime of a reset or of a verification token.  *)

\* the number of TickHours steps taken to reach time t
Ticks(t) ==
    (t \div hours(VERIFICATION_TOKEN_EXPIRE_HOURS))
    + ((t % hours(VERIFICATION_TOKEN_EXPIRE_HOURS)) \div hours(RESET_TOKEN_EXPIRE_HOURS))

TickHours ==
    /\ Ticks(now) < MaxTicks
    /\ \E h \in {RESET_TOKEN_EXPIRE_HOURS, VERIFICATION_TOKEN_EXPIRE_HOURS} :
          now' = now + hours(h)
    /\ UNCHANGED <<users, refresh_tokens, access_tokens, next_token, resp,
                   streak, consumed, sess, gate, oauth_states>>

\* the guardrail columns after LOGIN_RATE_LIMIT_ATTEMPTS failed logins at t
LockedOut(user, t) ==
    [user EXCEPT !.failed_login_attempts = LOGIN_RATE_LIMIT_ATTEMPTS,
                 !.last_failed_login = t,
                 !.account_locked_until = t + ACCOUNT_LOCKOUT_MINUTES]

InitOneTime ==
    /\ \E barred \in BOOLEAN :
          LET alice == Registered("alice", "a@x.com", "pw", 0, SeedToken(1))
          IN users = (1 :> IF barred
                           THEN [LockedOut(alice, 0) EXCEPT !.is_active = FALSE]
                           ELSE alice)
    /\ refresh_tokens = {}
    /\ access_tokens = {}
    /\ now = 0
    /\ next_token = 1
    /\ resp = NoResponse
    /\ streak = [u \in Uids |-> NoStreak]
    /\ consumed = EmptyBag
    /\ sess = NoSess
    /\ gate = NoGate
    /\ oauth_states = {}

NextOneTime ==
    \/ RegisterUser("bob", "b@x.com", "pw", TRUE)
    \/ \E token \in TokenInputs : VerifyEmail(token)
    \/ \E email \in Emails : ResendVerification(email, TRUE)
    \/ \E email \in Emails, send_ok \in BOOLEAN : ForgotPassword(email, send_ok)
    \/ \E token \in TokenInputs : ResetPassword(token, "pw2", TRUE)
    \/ TickHours

SpecOneTime == InitOneTime /\ [][NextOneTime]_vars

-----------------------------------------------------------------------------
(* Role gate specification: an admin and a user account, both logged in   *)
(* (their refresh tokens are SeedToken(3) and SeedToken(4)); the gates    *)
(* are evaluated for every account and required role, and the admin       *)
(* endpoints are called with either access token or a forged one.         *)

InitAdmin ==
    /\ users = (1 :> [Registered("alice", "a@x.com", "pw", 0, SeedToken(1))
                        EXCEPT !.role = ADMIN])
            @@ (2 :> Registered("bob", "b@x.com", "pw2", 0, SeedToken(2)))
    /\ refresh_tokens = {NewRefreshToken(SeedToken(2 + u), u, 0, "ua") : u \in {1, 2}}
    /\ access_tokens = {create_access_token(u, 0) : u \in {1, 2}}
    /\ now = 0
    /\ next_token = 1
    /\ resp = NoResponse
    /\ streak = [u \in Uids |-> NoStreak]
    /\ consumed = EmptyBag
    /\ sess = NoSess
    /\ gate = NoGate
    /\ oauth_states = {}

NextAdmin ==
    \/ \E uid \in DOMAIN users, required_role \in UserRole :
          CheckGates(uid, required_role)
    \/ \E access_token \in AccessInputs : ListAllUsers(access_token)
    \/ \E access_token \in AccessInputs, user_id \in DOMAIN users \cup {0},
          role \in UserRole : UpdateUserRole(access_token, user_id, role)
    \/ \E access_token \in AccessInputs, user_id \in DOMAIN users \cup {0} :
          DeactivateUser(access_token, user_id)

SpecAdmin == InitAdmin /\ [][NextAdmin]_vars

-----------------------------------------------------------------------------
(* Session specification: the admin and the user account of InitAdmin,    *)
(* both logged in while unverified; roles, active flags and verified      *)
(* flags then change under the access tokens issued before.               *)

SeedTokens == {SeedToken(k) : k \in 1..4}

NextSession ==
    \/ \E access_token \in AccessInputs : ListAllUsers(access_token)
    \/ \E access_token \in AccessInputs, user_id \in DOMAIN users,
          role \in UserRole : UpdateUserRole(access_token, user_id, role)
    \/ \E access_token \in AccessInputs, user_id \in DOMAIN users :
          DeactivateUser(access_token, user_id)
    \/ \E access_token \in AccessInputs, token \in SeedTokens :
          Logout(access_token, token)
    \/ \E access_token \in AccessInputs : ReadUsersMe(access_token)
    \/ \E access_token \in AccessInputs, user_id \in DOMAIN users \cup {0} :
          ReadUser(access_token, user_id)
    \/ \E token \in SeedTokens : VerifyEmail(token)

SpecSession == InitAdmin /\ [][NextSession]_vars

-----------------------------------------------------------------------------
(* Mail specification: one registered, logged-in account and a second one *)
(* that may register; every operation that sends an email runs with a     *)
(* send that succeeds and with a send that raises.                        *)

InitMail ==
    /\ users = (1 :> Registered("alice", "a@x.com", "pw", 0, SeedToken(1)))
    /\ refresh_tokens = {NewRefreshToken(SeedToken(3), 1, 0, "ua")}
    /\ access_tokens = {create_access_token(1, 0)}
    /\ now = 0
    /\ next_token = 1
    /\ resp = NoResponse
    /\ streak = [u \in Uids |-> NoStreak]
    /\ consumed = EmptyBag
    /\ sess = NoSess
    /\ gate = NoGate
    /\ oauth_states = {}

NextMail ==
    \/ \E send_ok \in BOOLEAN : RegisterUser("bob", "b@x.com", "pw", send_ok)
    \/ \E email \in Emails, send_ok \in BOOLEAN :
          ResendVerification(email, send_ok)
    \/ \E email \in Emails, send_ok \in BOOLEAN : ForgotPassword(email, send_ok)
    \/ \E token \in TokenInputs, send_ok \in BOOLEAN :
          ResetPassword(token, "pw2", send_ok)
    \/ \E access_token \in AccessInputs, old_password \in Passwords,
          new_password \in Passwords, send_ok \in BOOLEAN :
          ChangePassword(access_token, old_password, new_password, send_ok)

SpecMail == InitMail /\ [][NextMail]_vars

(* Lockout specification: administrator alice, logged in, and user bob, *)
(* both locked out by LOGIN_RATE_LIMIT_ATTEMPTS failed logins; every       *)
(* operation that writes an account, run on alice's account or by alice    *)
(* on bob's, and a clock that steps over the lockout duration.             *)
InitLockout ==
    /\ users = (1 :> LockedOut([Registered("alice", "a@x.com", "pw", 0, SeedToken(1))
                                  EXCEPT !.role = ADMIN], 0))
            @@ (2 :> LockedOut(Registered("bob", "b@x.com", "pw2", 0, SeedToken(2)), 0))
    /\ refresh_tokens = {NewRefreshToken(SeedToken(3), 1, 0, "ua")}
    /\ access_tokens = {create_access_token(1, 0)}
    /\ now = 0
    /\ next_token = 1
    /\ resp = NoResponse
    /\ streak = [u \in Uids |-> [n |-> LOGIN_RATE_LIMIT_ATTEMPTS, at |-> 0]]
    /\ consumed = EmptyBag
    /\ sess = NoSess
    /\ gate = NoGate
    /\ oauth_states = {}

TickLockout ==
    /\ now + ACCOUNT_LOCKOUT_MINUTES <= MaxMinutes
    /\ now' = now + ACCOUNT_LOCKOUT_MINUTES
    /\ UNCHANGED <<users, refresh_tokens, access_tokens, next_token, resp,
                   streak, consumed, sess, gate, oauth_states>>

NextLockout ==
    \/ \E password \in Passwords : Login("a@x.com", password, "ua")
    \/ VerifyEmail(SeedToken(1))
    \/ ForgotPassword("a@x.com", TRUE)
    \/ \E token \in TokenInputs : ResetPassword(token, "pw2", TRUE)
    \/ \E old_password \in Passwords :
          ChangePassword(create_access_token(1, 0), old_password, "pw2", TRUE)
    \/ RefreshAccessToken(SeedToken(3))
    \/ Logout(create_access_token(1, 0), SeedToken(3))
    \/ UpdateUserRole(create_access_token(1, 0), 2, MODERATOR)
    \/ DeactivateUser(create_access_token(1, 0), 2)
    \/ TickLockout

SpecLockout == InitLockout /\ [][NextLockout]_vars

-----------------------------------------------------------------------------
(* Concurrent logins: each request has its own Session; it SELECTs the row, *)
(* works on its own copy and its commit UPDATEs the columns it changed.    *)

Procs == {1, 2}

IdleSess ==
    [ pc |-> "idle", email |-> "", password |-> "", uid |-> None,
      loaded |-> <<>>, user |-> <<>>, status |-> 0 ]

\* db.commit(): the unit of work writes each attribute whose value differs
\* from the loaded one, with the value computed in Python
Flush(stored, loaded, user) ==
    [c \in DOMAIN stored |-> IF user[c] # loaded[c] THEN user[c] ELSE stored[c]]

\* login, lines 210-211: the SELECT
ConcSelect(p, email, password) ==
    /\ sess[p].pc = "idle"
    /\ sess' = [sess EXCEPT ![p] =
          IF ByEmail(email) = {}
          THEN [IdleSess EXCEPT !.pc = "done", !.email = email,
                                !.password = password, !.status = 401]
          ELSE [IdleSess EXCEPT !.pc = "selected", !.email = email,
                                !.password = password,
                                !.uid = One(ByEmail(email)),
                                !.loaded = users[One(ByEmail(email))],
                                !.user = users[One(ByEmail(email))]]]
    /\ UNCHANGED <<users, refresh_tokens, access_tokens, now, next_token, resp,
                   streak, consumed, gate, oauth_states>>

\* login, lines 213-219: the guardrail check on the session's copy
ConcCheck(p) ==
    /\ sess[p].pc = "selected"
    /\ LET rl == check_rate_limit(sess[p].user, now)
       IN sess' = [sess EXCEPT ![p] =
             IF rl.is_allowed
             THEN [@ EXCEPT !.pc = "checked", !.user = rl.user]
             ELSE [@ EXCEPT !.pc = "done", !.status = 429]]
    /\ UNCHANGED <<users, refresh_tokens, access_tokens, now, next_token, resp,
                   streak, consumed, gate, oauth_states>>

\* login, lines 222-238: password verification and the change it makes to
\* the session's copy (record_failed_login or reset_failed_attempts)
ConcVerify(p) ==
    /\ sess[p].pc = "checked"
    /\ sess' = [sess EXCEPT ![p] =
          IF ~verify_password(sess[p].password, sess[p].user.hashed_password)
          THEN [@ EXCEPT !.pc = "recorded",
                         !.user = record_failed_login(sess[p].user, now)]
          ELSE IF ~sess[p].user.is_active
          THEN [@ EXCEPT !.pc = "done", !.status = 400]
          ELSE [@ EXCEPT !.pc = "reset",
                         !.user = reset_failed_attempts(sess[p].user)]]
    /\ UNCHANGED <<users, refresh_tokens, access_tokens, now, next_token, resp,
                   streak, consumed, gate, oauth_states>>

\* record_failed_login, line 59: db.commit(), then the 401
ConcCommitFailure(p) ==
    /\ sess[p].pc = "recorded"
    /\ users' = [users EXCEPT ![sess[p].uid] =
                    Flush(@, sess[p].loaded, sess[p].user)]
    /\ sess' = [sess EXCEPT ![p].pc = "done", ![p].status = 401]
    /\ UNCHANGED <<refresh_tokens, access_tokens, now, next_token, resp,
                   streak, consumed, gate, oauth_states>>

\* reset_failed_attempts, line 67: db.commit(), then the tokens (lines 240-253)
ConcCommitSuccess(p, user_agent) ==
    /\ sess[p].pc = "reset"
    /\ next_token <= MaxTokens
    /\ CanHandOut(create_access_token(sess[p].uid, now))
    /\ users' = [users EXCEPT ![sess[p].uid] =
                    Flush(@, sess[p].loaded, sess[p].user)]
    /\ refresh_tokens' = refresh_tokens \cup
           {NewRefreshToken(generate_token, sess[p].uid, now, user_agent)}
    /\ access_tokens' = access_tokens \cup {create_access_token(sess[p].uid, now)}
    /\ next_token' = next_token + 1
    /\ sess' = [sess EXCEPT ![p].pc = "done", ![p].status = 200]
    /\ UNCHANGED <<now, resp, streak, consumed, gate, oauth_states>>

InitConc ==
    /\ users = (1 :> Registered("alice", "a@x.com", "pw", 0, SeedToken(1)))
    /\ refresh_tokens = {}
    /\ access_tokens = {}
    /\ now = 0
    /\ next_token = 1
    /\ resp = NoResponse
    /\ streak = [u \in Uids |-> NoStreak]
    /\ consumed = EmptyBag
    /\ sess = [p \in Procs |-> IdleSess]
    /\ gate = NoGate
    /\ oauth_states = {}

NextConc ==
    \/ \E p \in Procs, email \in Emails, password \in Passwords :
          ConcSelect(p, email, password)
    \/ \E p \in Procs : ConcCheck(p)
    \/ \E p \in Procs : ConcVerify(p)
    \/ \E p \in Procs : ConcCommitFailure(p)
    \/ \E p \in Procs, user_agent \in UserAgents : ConcCommitSuccess(p, user_agent)
    \/ TickMinute

SpecConc == InitConc /\ [][NextConc]_vars

\* login, lines 240-253 and the raise statements: the response is sent and
\* the worker is free for the next request
ConcAnswer(p) ==
    /\ sess[p].pc = "done"
    /\ sess' = [sess EXCEPT ![p] = IdleSess]
    /\ UNCHANGED <<users, refresh_tokens, access_tokens, now, next_token, resp,
                   streak, consumed, gate, oauth_states>>

(* Repeated concurrent logins for one account: two workers serve login   *)
(* requests for alice one after another, each request taking its steps   *)
(* in any interleaving with the other worker's.                          *)
NextRace ==
    \/ \E p \in Procs, password \in Passwords :
          ConcSelect(p, "a@x.com", password)
    \/ \E p \in Procs : ConcCheck(p)
    \/ \E p \in Procs : ConcVerify(p)
    \/ \E p \in Procs : ConcCommitFailure(p)
    \/ \E p \in Procs : ConcCommitSuccess(p, "ua")
    \/ \E p \in Procs : ConcAnswer(p)
    \/ TickLockout

SpecRace == InitConc /\ [][NextRace]_vars

-----------------------------------------------------------------------------
(* Account creation by concurrent requests: POST /auth/register and       *)
(* GET /oauth/github/callback, each request with its own Session.  A      *)
(* request's SELECTs and its commit are separate steps; the unique        *)
(* indexes of the users table are checked by the database at the commit.  *)

Usernames == {"alice", "bob"}

IdleReq ==
    [ pc |-> "idle", username |-> "", email |-> "", password |-> "",
      uid |-> None ]

MutNoUniqueIndex(row) == FALSE

\* src/models.py: username and email are unique=True; an INSERT that breaks
\* either index raises IntegrityError at db.commit()
UniqueViolation(row) ==
    \E u \in DOMAIN users :
        users[u].username = row.username \/ users[u].email = row.email

\* the response to a request whose handler raised an unhandled exception
ServerError(op, req) == Response(op, req, 500, "Internal Server Error")

\* register_user, lines 154-161
RegSelectUsername(p, username, email, password) ==
    /\ sess[p].pc = "idle"
    /\ IF ByUsername(username) # {}
       THEN /\ resp' = Response("register_user", <<username, email>>, 400,
                                "Username already registered")
            /\ UNCHANGED sess
       ELSE /\ sess' = [sess EXCEPT ![p] =
                   [IdleReq EXCEPT !.pc = "reg_email", !.username = username,
                                   !.email = email, !.password = password]]
            /\ UNCHANGED resp
    /\ UNCHANGED <<users, refresh_tokens, access_tokens, now, next_token,
                   streak, consumed, gate, oauth_states>>

\* register_user, lines 163-170
RegSelectEmail(p) ==
    /\ sess[p].pc = "reg_email"
    /\ IF ByEmail(sess[p].email) # {}
       THEN /\ resp' = Response("register_user",
                                <<sess[p].username, sess[p].email>>, 400,
                                "Email already registered")
            /\ sess' = [sess EXCEPT ![p] = IdleReq]
       ELSE /\ sess' = [sess EXCEPT ![p].pc = "reg_commit"]
            /\ UNCHANGED resp
    /\ UNCHANGED <<users, refresh_tokens, access_tokens, now, next_token,
                   streak, consumed, gate, oauth_states>>

\* register_user, lines 172-198
RegCommit(p, send_ok) ==
    /\ sess[p].pc = "reg_commit"
    /\ LET uid == Cardinality(DOMAIN users) + 1
           req == <<sess[p].username, sess[p].email>>
           db_user == NewUser(sess[p].username, sess[p].email,
                              get_password_hash(sess[p].password), FALSE,
                              generate_token,
                              now + hours(VERIFICATION_TOKEN_EXPIRE_HOURS))
       IN IF UniqueViolation(db_user)
          THEN /\ resp' = ServerError("register_user", req)
               /\ UNCHANGED <<users, next_token>>
          ELSE /\ Cardinality(DOMAIN users) < MaxUsers
               /\ next_token <= MaxTokens
               /\ users' = users @@ (uid :> db_user)
               /\ next_token' = next_token + 1
               /\ resp' = [Response("register_user", req, 201, "")
                             EXCEPT !.uid = uid, !.mail = Mail(send_ok)]
    /\ sess' = [sess EXCEPT ![p] = IdleReq]
    /\ UNCHANGED <<refresh_tokens, access_tokens, now, streak, consumed, gate,
                   oauth_states>>

(* GitHub OAuth: src/routers/oauth.py *)

\* what GitHub answers to the three calls of the callback: the status of
\* the code exchange, the status of GET /user, the login, and the list of
\* GET /user/emails
Reply(exchange, user, login, emails) ==
    [exchange |-> exchange, user |-> user, login |-> login, emails |-> emails]

Address(email, primary, verified) ==
    [email |-> email, primary |-> primary, verified |-> verified]

ProviderReplies ==
    {Reply(400, 200, "bob", <<>>), Reply(200, 401, "bob", <<>>),
     Reply(200, 200, "bob", <<>>),
     Reply(200, 200, "bob", <<Address("b@x.com", FALSE, TRUE)>>)}
    \cup {Reply(200, 200, login, <<Address(email, TRUE, verified)>>) :
            login \in Usernames, email \in Emails, verified \in BOOLEAN}

\* next((e["email"] for e in emails if e["primary"]), None)
PrimaryEmail(emails) ==
    LET idx == {i \in DOMAIN emails : emails[i].primary}
    IN IF idx = {} THEN NoneStr
       ELSE emails[CHOOSE i \in idx : \A j \in idx : i <= j].email

\* secrets.token_hex(4)
HexInputs == {"0a"}

PendingStates == {r.state : r \in oauth_states}

\* GET /oauth/github/login
GithubLogin ==
    /\ next_token <= MaxTokens
    /\ LET state == generate_token
       IN /\ oauth_states' = oauth_states \cup
                {[state |-> state, provider |-> "github", timestamp |-> now]}
          /\ resp' = Response("github_login", <<state>>, 307, "")
    /\ next_token' = next_token + 1
    /\ UNCHANGED <<users, refresh_tokens, access_tokens, now, streak, consumed,
                   sess, gate>>

MutStateKept(state) == oauth_states

\* del oauth_states[state]
WithoutState(state) == {r \in oauth_states : r.state # state}

\* github_callback, lines 58-65: the state is checked and deleted (no await
\* lies between the test and the del, so the two are one step)
OauthBegin(p, state) ==
    /\ sess[p].pc = "idle"
    /\ IF state \notin PendingStates
       THEN /\ resp' = Response("github_callback", <<state>>, 400,
                                "Invalid state parameter")
            /\ UNCHANGED <<sess, oauth_states, consumed>>
       ELSE /\ oauth_states' = WithoutState(state)
            /\ consumed' = consumed (+) SetToBag({<<"oauth_state", state>>})
            /\ sess' = [sess EXCEPT ![p] = [IdleReq EXCEPT !.pc = "oauth_provider"]]
            /\ UNCHANGED resp
    /\ UNCHANGED <<users, refresh_tokens, access_tokens, now, next_token,
                   streak, gate>>

\* github_callback, lines 67-128: GitHub's answers, then the SELECT by email
OauthProvider(p, reply) ==
    /\ sess[p].pc = "oauth_provider"
    /\ LET primary_email == PrimaryEmail(reply.emails)
           failed(detail) ==
               /\ resp' = Response("github_callback", <<>>, 400, detail)
               /\ sess' = [sess EXCEPT ![p] = IdleReq]
       IN IF reply.exchange # 200
          THEN failed("Failed to exchange authorization code")
          ELSE IF reply.user # 200
          THEN failed("Failed to fetch user information")
          ELSE IF primary_email = NoneStr
          THEN failed("No primary email found")
          ELSE IF ByEmail(primary_email) # {}
          THEN /\ sess' = [sess EXCEPT ![p] =
                      [IdleReq EXCEPT !.pc = "oauth_tokens",
                                      !.email = primary_email,
                                      !.uid = One(ByEmail(primary_email))]]
               /\ UNCHANGED resp
          ELSE /\ sess' = [sess EXCEPT ![p] =
                      [IdleReq EXCEPT !.pc = "oauth_username",
                                      !.username = reply.login,
                                      !.email = primary_email]]
               /\ UNCHANGED resp
    /\ UNCHANGED <<users, refresh_tokens, access_tokens, now, next_token,
                   streak, consumed, gate, oauth_states>>

\* github_callback, lines 130-137: the username is made unique
OauthSelectUsername(p, hex) ==
    /\ sess[p].pc = "oauth_username"
    /\ sess' = [sess EXCEPT ![p].pc = "oauth_commit",
                            ![p].username =
                                IF ByUsername(sess[p].username) # {}
                                THEN sess[p].username \o "_" \o hex
                                ELSE sess[p].username]
    /\ UNCHANGED <<users, refresh_tokens, access_tokens, now, next_token, resp,
                   streak, consumed, gate, oauth_states>>

MutOauthUserAdmin(username, email) ==
    [NewUser(username, email, NoHash, TRUE, None, None) EXCEPT !.role = ADMIN]

MutOauthUserUnverified(username, email) ==
    NewUser(username, email, NoHash, FALSE, None, None)

\* User(username=..., email=primary_email, is_verified=True,
\*      hashed_password=None); role and is_active take the column defaults
OauthUser(username, email) ==
    NewUser(username, email, NoHash, TRUE, None, None)

\* github_callback, lines 139-149: the INSERT
OauthCommit(p) ==
    /\ sess[p].pc = "oauth_commit"
    /\ LET uid == Cardinality(DOMAIN users) + 1
           user == OauthUser(sess[p].username, sess[p].email)
       IN IF UniqueViolation(user)
          THEN /\ resp' = ServerError("github_callback",
                                      <<sess[p].username, sess[p].email>>)
               /\ sess' = [sess EXCEPT ![p] = IdleReq]
               /\ UNCHANGED users
          ELSE /\ Cardinality(DOMAIN users) < MaxUsers
               /\ users' = users @@ (uid :> user)
               /\ sess' = [sess EXCEPT ![p].pc = "oauth_tokens", ![p].uid = uid]
               /\ UNCHANGED resp
    /\ UNCHANGED <<refresh_tokens, access_tokens, now, next_token, streak,
                   consumed, gate, oauth_states>>

\* github_callback, lines 151-161: the tokens and the redirect
OauthTokens(p) ==
    /\ sess[p].pc = "oauth_tokens"
    /\ next_token <= MaxTokens
    /\ LET uid == sess[p].uid
           jwt_access_token == create_access_token(uid, now)
           refresh_token == generate_token
       IN /\ CanHandOut(jwt_access_token)
          /\ access_tokens' = access_tokens \cup {jwt_access_token}
          /\ refresh_tokens' = refresh_tokens \cup
                {NewRefreshToken(refresh_token, uid, now, "OAuth GitHub")}
          /\ resp' = [Response("github_callback", <<sess[p].email>>, 307, "")
                        EXCEPT !.uid = uid,
                               !.access_token = jwt_access_token,
                               !.refresh_token = refresh_token]
    /\ next_token' = next_token + 1
    /\ sess' = [sess EXCEPT ![p] = IdleReq]
    /\ UNCHANGED <<users, now, streak, consumed, gate, oauth_states>>

(* Account creation specification: an empty users table, two OAuth states *)
(* handed out earlier, and two concurrent requests that register or       *)
(* complete a GitHub callback.                                            *)
NoUsers == [u \in {} |-> NewUser("", "", NoHash, FALSE, None, None)]

InitAccounts ==
    /\ users = NoUsers
    /\ refresh_tokens = {}
    /\ access_tokens = {}
    /\ now = 0
    /\ next_token = 1
    /\ resp = NoResponse
    /\ streak = [u \in Uids |-> NoStreak]
    /\ consumed = EmptyBag
    /\ sess = [p \in Procs |-> IdleReq]
    /\ gate = NoGate
    /\ oauth_states = {[state |-> SeedToken(1 + p), provider |-> "github",
                        timestamp |-> 0] : p \in Procs}

StateInputs == PendingStates \cup {0}

NextAccounts ==
    \/ \E p \in Procs, username \in Usernames, email \in Emails :
          RegSelectUsername(p, username, email, "pw")
    \/ \E p \in Procs : RegSelectEmail(p)
    \/ \E p \in Procs : RegCommit(p, TRUE)
    \/ GithubLogin
    \/ \E p \in Procs, state \in StateInputs : OauthBegin(p, state)
    \/ \E p \in Procs, reply \in ProviderReplies : OauthProvider(p, reply)
    \/ \E p \in Procs, hex \in HexInputs : OauthSelectUsername(p, hex)
    \/ \E p \in Procs : OauthCommit(p)
    \/ \E p \in Procs : OauthTokens(p)

SpecAccounts == InitAccounts /\ [][NextAccounts]_vars

(* OAuth specification: one password account (deactivated or not), two  *)
(* OAuth states handed out earlier, and two concurrent GitHub callbacks    *)
(* that present pending, used and unknown states.                          *)
InitOauth ==
    /\ \E active \in BOOLEAN :
          users = (1 :> [Registered("alice", "a@x.com", "pw", 0, SeedToken(1))
                           EXCEPT !.is_active = active])
    /\ refresh_tokens = {}
    /\ access_tokens = {}
    /\ now = 0
    /\ next_token = 1
    /\ resp = NoResponse
    /\ streak = [u \in Uids |-> NoStreak]
    /\ consumed = EmptyBag
    /\ sess = [p \in Procs |-> IdleReq]
    /\ gate = NoGate
    /\ oauth_states = {[state |-> SeedToken(1 + p), provider |-> "github",
                        timestamp |-> 0] : p \in Procs}

\* every state handed out so far, and one that never was
IssuedStates == {SeedToken(1 + p) : p \in Procs} \cup 1..(next_token - 1)

NextOauth ==
    \/ GithubLogin
    \/ \E p \in Procs, state \in IssuedStates \cup {0} : OauthBegin(p, state)
    \/ \E p \in Procs, reply \in ProviderReplies : OauthProvider(p, reply)
    \/ \E p \in Procs, hex \in HexInputs : OauthSelectUsername(p, hex)
    \/ \E p \in Procs : OauthCommit(p)
    \/ \E p \in Procs : OauthTokens(p)

SpecOauth == InitOauth /\ [][NextOauth]_vars

(* Account lifecycle specification: administrator alice, logged in; a    *)
(* second account that registers or arrives through a GitHub callback;     *)
(* logins, the one-time token operations, set-role and deactivate.         *)
InitLifecycle ==
    /\ users = (1 :> [Registered("alice", "a@x.com", "pw", 0, SeedToken(1))
                        EXCEPT !.role = ADMIN])
    /\ refresh_tokens = {}
    /\ access_tokens = {create_access_token(1, 0)}
    /\ now = 0
    /\ next_token = 1
    /\ resp = NoResponse
    /\ streak = [u \in Uids |-> NoStreak]
    /\ consumed = EmptyBag
    /\ sess = [p \in Procs |-> IdleReq]
    /\ gate = NoGate
    /\ oauth_states = {[state |-> SeedToken(2), provider |-> "github",
                        timestamp |-> 0]}

NextLifecycle ==
    \/ RegisterUser("bob", "b@x.com", "pw", TRUE)
    \/ OauthBegin(1, SeedToken(2))
    \/ \E reply \in ProviderReplies : OauthProvider(1, reply)
    \/ \E hex \in HexInputs : OauthSelectUsername(1, hex)
    \/ OauthCommit(1)
    \/ OauthTokens(1)
    \/ Login("b@x.com", "pw", "ua")
    \/ \E token \in 1..MaxTokens : VerifyEmail(token)
    \/ ForgotPassword("b@x.com", TRUE)
    \/ \E token \in 1..MaxTokens : ResetPassword(token, "pw2", TRUE)
    \/ \E access_token \in access_tokens, role \in UserRole :
          UpdateUserRole(access_token, 2, role)
    \/ \E access_token \in access_tokens : DeactivateUser(access_token, 2)

SpecLifecycle == InitLifecycle /\ [][NextLifecycle]_vars

-----------------------------------------------------------------------------
(* Claims about the login guardrail, checked under Spec *)

IsLogin(r) == r.op = "login"
IssuedTokens(r) == r.access_token # NoAccess \/ r.refresh_token # None

\* a step in which a login request for account u is answered (a login that
\* repeats the previous response changes nothing and is no step)
LoginAnswered(u) == resp' # resp /\ IsLogin(resp') /\ resp'.uid = u

C3_SuccessResets ==
    (IsLogin(resp) /\ resp.status = 200) =>
        /\ IssuedTokens(resp)
        /\ users[resp.uid].failed_login_attempts = 0
        /\ users[resp.uid].last_failed_login = None
        /\ users[resp.uid].account_locked_until = None

\* C3 witness: a login succeeded on an account whose counter was one short
\* of the threshold.
C3_Witness ==
    /\ IsLogin(resp) /\ resp.status = 200
    /\ resp.pre.failed_login_attempts = LOGIN_RATE_LIMIT_ATTEMPTS - 1
    /\ resp.pre.last_failed_login # None

-----------------------------------------------------------------------------
(* Claims about concurrent logins, checked under SpecConc *)

FailedLoginDone(p, u) ==
    sess[p].pc = "done" /\ sess[p].status = 401 /\ sess[p].uid = u

\* C2: two failed logins for the same account, run in any interleaving of
\* their steps from counter 0 and within the rate-limit window, leave the
\* stored failed-login counter at 2.
C2_NoLostUpdate ==
    \A u \in DOMAIN users :
        (/\ \A p \in Procs : FailedLoginDone(p, u)
         /\ now <= LOGIN_RATE_LIMIT_WINDOW_MINUTES)
        => users[u].failed_login_attempts = 2

-----------------------------------------------------------------------------
(* Claims about the refresh token ledger, checked under SpecTokens *)

IsRefresh(r) == r.op = "refresh"

\* C4: a refresh request that presents a token whose revoked flag is set is
\* answered with the revoked error and no access token, also when the token
\* is past its expiry.
C4_RevokedNeverRedeems ==
    \A rt \in refresh_tokens :
        (IsRefresh(resp) /\ resp.req[1] = rt.token /\ rt.is_revoked)
        => /\ resp.status = 401
           /\ resp.detail = "Refresh token has been revoked"
           /\ ~IssuedTokens(resp)

\* C4 witness: a revoked token that is also expired was presented.
C4_Witness ==
    \E rt \in refresh_tokens :
        /\ IsRefresh(resp) /\ resp.req[1] = rt.token
        /\ rt.is_revoked /\ rt.expires_at < now

\* a token the ledger holds unrevoked and unexpired, of an active account
Redeemable(token) ==
    \E rt \in ByToken(token) :
        /\ ~rt.is_revoked
        /\ now <= rt.expires_at
        /\ rt.user_id \in DOMAIN users /\ users[rt.user_id].is_active

RefreshAnswered(token) ==
    resp' # resp /\ IsRefresh(resp') /\ resp'.req = <<token>>

-----------------------------------------------------------------------------
(* One-time tokens *)

ConsumedOnce == \A x \in BagToSet(consumed) : CopiesIn(x, consumed) = 1

SecondConsume(purpose, token) == BagIn(<<purpose, token>>, consumed)

\* C5: a one-time token is single-use.  No verification or reset token is
\* ever consumed successfully twice, and once verify-email (reset-password)
\* has succeeded with token t, every later verify-email (reset-password)
\* with t answers 400 with the invalid-token detail and changes no account.
C5_SingleUse ==
    /\ []ConsumedOnce
    /\ [][\A token \in TokenInputs :
            /\ (SecondConsume("verify", token) /\ VerifyEmail(token))
                  => /\ resp'.status = 400
                     /\ resp'.detail = "Invalid verification token"
                     /\ users' = users
            /\ (SecondConsume("reset", token)
                  /\ \E send_ok \in BOOLEAN : ResetPassword(token, "pw2", send_ok))
                  => /\ resp'.status = 400
                     /\ resp'.detail = "Invalid reset token"
                     /\ users' = users]_vars

\* a verified account's spent token is presented again and refused
C5_Witness ==
    /\ resp.op = "verify_email"
    /\ resp.status = 400
    /\ resp.detail = "Invalid verification token"
    /\ SecondConsume("verify", resp.req[1])
    /\ \E u \in DOMAIN users : users[u].is_verified

\* C6: forgot-password answers 200 with the same body whether or not the
\* email belongs to an account, whatever the account's state, and whether
\* or not the reset email could be sent.
C6_ForgotPasswordUniform ==
    resp.op = "forgot_password"
        => /\ resp.status = 200
           /\ resp.detail = "If the email exists, a password reset link has been sent"

\* a reset token issued for a deactivated, locked-out account whose email
\* could not be sent
C6_Witness ==
    /\ resp.op = "forgot_password"
    /\ resp.uid # None
    /\ resp.mail = "failed"
    /\ ~users[resp.uid].is_active
    /\ users[resp.uid].account_locked_until # None
    /\ users[resp.uid].reset_token # None

\* C7: resend-verification answers with the same generic acknowledgement
\* for an unknown email, for an already-verified account and for an
\* unverified account that is sent a new token.
C7_ResendUniform ==
    resp.op = "resend_verification_email"
        => /\ resp.status = 200
           /\ resp.detail = "If the email exists, a verification link has been sent"

\* C9: verify-email (reset-password) with a token whose expiry instant has
\* passed answers 400 with the expired-token detail and leaves every
\* account as it was.
C9_ExpiredChangesNothing ==
    [][\A token \in TokenInputs, u \in DOMAIN users :
          /\ (/\ users[u].verification_token = token
              /\ users[u].verification_token_expiry < now
              /\ VerifyEmail(token))
                => /\ resp'.status = 400
                   /\ resp'.detail = "Verification token has expired"
                   /\ users' = users
          /\ (/\ users[u].reset_token = token
              /\ users[u].reset_token_expiry < now
              /\ \E send_ok \in BOOLEAN : ResetPassword(token, "pw2", send_ok))
                => /\ resp'.status = 400
                   /\ resp'.detail = "Reset token has expired"
                   /\ users' = users]_vars

\* an expired reset token was presented and is still the account's token
C9_Witness ==
    /\ resp.op = "reset_password"
    /\ resp.detail = "Reset token has expired"
    /\ resp.uid # None
    /\ users[resp.uid].reset_token = resp.req[1]
    /\ users[resp.uid].reset_token_expiry < now
    /\ users[resp.uid].hashed_password = get_password_hash("pw")

-----------------------------------------------------------------------------
(* Role hierarchy *)

\* user < moderator < admin
Rank(role) == CHOOSE i \in 1..3 : <<USER, MODERATOR, ADMIN>>[i] = role

AdminGated == {"list_all_users", "update_user_role"}

\* C8: a gate with minimum role m passes iff the account's role is at
\* least m in the order user < moderator < admin: check_permission for
\* every required role, require_moderator_or_admin for m = moderator,
\* require_admin for m = admin; list users and set-role are refused with
\* 403 exactly for callers below admin, deactivate exactly for callers
\* below moderator.
C8_RoleHierarchy ==
    /\ gate.evaluated =>
          /\ gate.check_permission <=> Rank(gate.role) >= Rank(gate.required_role)
          /\ gate.require_moderator_or_admin <=> Rank(gate.role) >= Rank(MODERATOR)
          /\ gate.require_admin <=> Rank(gate.role) >= Rank(ADMIN)
    /\ (resp.op \in AdminGated /\ resp.role # NoneStr) =>
          (resp.status = 403 <=> Rank(resp.role) < Rank(ADMIN))
    /\ (resp.op = "deactivate_user" /\ resp.role # NoneStr) =>
          (resp.status = 403 <=> Rank(resp.role) < Rank(MODERATOR))

\* a moderator was refused set-role, and the gates were evaluated for a
\* moderator against the admin minimum
C8_Witness ==
    /\ resp.op = "update_user_role"
    /\ resp.role = MODERATOR
    /\ resp.status = 403
    /\ gate.evaluated
    /\ gate.role = MODERATOR
    /\ gate.required_role = ADMIN
    /\ gate.require_moderator_or_admin
    /\ ~gate.require_admin

-----------------------------------------------------------------------------
(* Logout *)

\* the bearer token names an existing, active account at the current time
Authenticates(access_token) ==
    /\ access_token.signed
    /\ ~(access_token.exp < now)
    /\ access_token.sub \in DOMAIN users
    /\ users[access_token.sub].is_active

\* C11: logout by an authenticated account A with refresh token t always
\* answers 200 with the same acknowledgement; it sets the revoked flag of t
\* when t is in the ledger and owned by A, and leaves every other ledger row
\* (unknown t, a token of another account, A's other tokens) as it was.
C11_LogoutFrame ==
    [][\A access_token \in AccessInputs, token \in TokenInputs :
          (/\ resp'.op = "logout"
           /\ Authenticates(access_token)
           /\ Logout(access_token, token)) =>
             /\ resp'.status = 200
             /\ resp'.detail = "Successfully logged out"
             /\ \A r \in refresh_tokens :
                   IF r.token = token /\ r.user_id = access_token.sub
                   THEN [r EXCEPT !.is_revoked = TRUE] \in refresh_tokens'
                   ELSE r \in refresh_tokens'
             /\ Cardinality(refresh_tokens') = Cardinality(refresh_tokens)]_vars

\* an account logged out with a live token of another account, which is
\* still live
C11_Witness ==
    /\ resp.op = "logout"
    /\ resp.status = 200
    /\ \E r \in refresh_tokens :
          /\ r.token = resp.req[1]
          /\ r.user_id # resp.uid
          /\ ~r.is_revoked

-----------------------------------------------------------------------------
(* Active flag and self-deactivation on the admin endpoints *)

RoleGated == AdminGated \cup {"deactivate_user"}

\* C12: an operation that authenticates by access token is refused with
\* the inactive-account error (400 "Inactive user") when the token's
\* account has is_active = FALSE; stated here for the role-gated admin
\* operations list users, set-role and deactivate.
C12_InactiveRefused ==
    (/\ resp.op \in RoleGated
     /\ resp.uid # None
     /\ ~users[resp.uid].is_active)
        => (resp.status = 400 /\ resp.detail = "Inactive user")

\* C13: deactivate never clears is_active of the account that sent the
\* request: a moderator or admin whose target id is its own id gets 400
\* "Cannot deactivate your own account" and no account changes.
C13_NoSelfDeactivation ==
    [][\A access_token \in AccessInputs :
          (/\ resp'.op = "deactivate_user"
           /\ get_current_user(access_token, now).ok
           /\ DeactivateUser(access_token, access_token.sub)) =>
              /\ users' = users
              /\ Rank(users[access_token.sub].role) >= Rank(MODERATOR)
                    => /\ resp'.status = 400
                       /\ resp'.detail = "Cannot deactivate your own account"]_vars

\* an active admin asked to deactivate itself and is still active
C13_Witness ==
    /\ resp.op = "deactivate_user"
    /\ resp.role = ADMIN
    /\ resp.req = <<resp.uid>>
    /\ resp.status = 400
    /\ users[resp.uid].is_active

-----------------------------------------------------------------------------
(* Account creation *)

TakenBy(username, email) ==
    {u \in DOMAIN users :
        users[u].username = username \/ users[u].email = email}

\* C14: a register request whose username or email is that of an existing
\* account is answered 400 with "Username already registered" or "Email
\* already registered" and leaves the users table as it was, also when the
\* other account was committed by a concurrent request after this one's
\* SELECTs.
C14_DuplicateConflict ==
    [][(/\ resp' # resp
        /\ resp'.op = "register_user"
        /\ TakenBy(resp'.req[1], resp'.req[2]) # {})
          => /\ resp'.status = 400
             /\ resp'.detail \in {"Username already registered",
                                  "Email already registered"}
             /\ users' = users]_vars

\* C15: no two accounts share a username and no two accounts share an
\* email, under every interleaving of register and OAuth-callback creation.
C15_UniqueIdentity ==
    \A u, v \in DOMAIN users :
        u # v => /\ users[u].username # users[v].username
                 /\ users[u].email # users[v].email

\* an OAuth callback lost the race for its email against a registration:
\* it had found no account with that email and its INSERT was refused
C15_Witness ==
    /\ resp.op = "github_callback"
    /\ resp.status = 500
    /\ \E u \in DOMAIN users :
          /\ users[u].email = resp.req[2]
          /\ users[u].hashed_password # NoHash

-----------------------------------------------------------------------------
(* Access token validation *)

\* C16: validating an access token fails with an invalid-token error on a
\* bad signature and with a different, expired-token error once the time
\* exceeds the token's exp: neither token authenticates, and the two
\* failures differ in status or detail.
C16_ExpiredDistinct ==
    \A access_token \in access_tokens :
        access_token.exp < now =>
            LET expired == get_current_user(access_token, now)
                forged == get_current_user(Forged(access_token.sub, now), now)
            IN /\ ~expired.ok
               /\ ~forged.ok
               /\ <<expired.status, expired.detail>>
                     # <<forged.status, forged.detail>>

\* C17: logout does not revoke access tokens.  An access token that is
\* signed, not past its exp and names an active account authenticates,
\* also when refresh tokens of that account have been revoked by logout.
C17_AccessSurvivesLogout ==
    \A access_token \in access_tokens :
        (/\ Authenticates(access_token)
         /\ \E r \in refresh_tokens :
               r.user_id = access_token.sub /\ r.is_revoked)
            => /\ get_current_user(access_token, now).ok
               /\ get_current_active_user(access_token, now).ok

\* after a logout revoked a refresh token of the account, a further request
\* with the account's access token was accepted
C17_Witness ==
    /\ resp.op = "logout"
    /\ resp.status = 200
    /\ \E r \in refresh_tokens :
          /\ r.user_id = resp.uid
          /\ r.is_revoked
          /\ r.token # resp.req[1]
    /\ \A r \in refresh_tokens : r.user_id = resp.uid => r.is_revoked

-----------------------------------------------------------------------------
(* Login with an unknown email *)

GenericLoginFailure(r) ==
    r.status = 401 /\ r.detail = "Incorrect email or password"

\* C19: a login for an email of no account changes no stored state and is
\* answered 401 "Incorrect email or password", the very answer a wrong
\* password gets on an existing account that the guardrail admits.
C19_UnknownEmailGeneric ==
    /\ [](IsLogin(resp) =>
            /\ resp.uid = None => GenericLoginFailure(resp)
            /\ (/\ resp.uid # None
                /\ resp.status # 429
                /\ ~verify_password(resp.req[2], users[resp.uid].hashed_password))
                  => GenericLoginFailure(resp))
    /\ [][(/\ resp' # resp
           /\ IsLogin(resp')
           /\ ByEmail(resp'.req[1]) = {})
             => /\ GenericLoginFailure(resp')
                /\ resp'.pre = NoPre
                /\ users' = users
                /\ refresh_tokens' = refresh_tokens
                /\ access_tokens' = access_tokens]_vars

\* a login for an unknown email was refused while a wrong password on the
\* existing account had been counted
C19_Witness ==
    /\ IsLogin(resp)
    /\ resp.uid = None
    /\ ByEmail(resp.req[1]) = {}
    /\ GenericLoginFailure(resp)
    /\ \E u \in DOMAIN users : users[u].failed_login_attempts > 0

-----------------------------------------------------------------------------
(* Authorization reads the stored account *)

\* C18: a request is decided by the role, active flag and verified flag
\* stored for the token's account when the request is made, whatever they
\* were when the access token was issued: the admin gate admits exactly a
\* stored role admin, the moderator gate a stored role moderator or admin,
\* logout, get-self and get-by-id refuse exactly a stored is_active = FALSE
\* with 400, and get-by-id refuses exactly a stored is_verified = FALSE
\* of an active account with 403.
C18_CurrentFlagsDecide ==
    [][\A access_token \in access_tokens :
         LET stored == users[access_token.sub]
             Inactive == resp'.status = 400 /\ resp'.detail = "Inactive user"
         IN
         /\ (resp'.op = "list_all_users" /\ ListAllUsers(access_token))
               => (resp'.status = 403 <=> stored.role # ADMIN)
         /\ (resp'.op = "update_user_role"
             /\ \E user_id \in DOMAIN users, role \in UserRole :
                   UpdateUserRole(access_token, user_id, role))
               => (resp'.status = 403 <=> stored.role # ADMIN)
         /\ (resp'.op = "deactivate_user"
             /\ \E user_id \in DOMAIN users :
                   DeactivateUser(access_token, user_id))
               => (resp'.status = 403 <=> stored.role \notin {MODERATOR, ADMIN})
         /\ (resp'.op = "logout"
             /\ \E token \in SeedTokens : Logout(access_token, token))
               => (Inactive <=> ~stored.is_active)
         /\ (resp'.op = "read_users_me" /\ ReadUsersMe(access_token))
               => (Inactive <=> ~stored.is_active)
         /\ (resp'.op = "read_user"
             /\ \E user_id \in DOMAIN users \cup {0} :
                   ReadUser(access_token, user_id))
               => /\ Inactive <=> ~stored.is_active
                  /\ stored.is_active =>
                        (resp'.status = 403 <=> ~stored.is_verified)]_vars

\* the account that was a user when it logged in lists the users after its
\* promotion, and the account that was the admin has been deactivated
C18_Witness ==
    /\ resp.op = "list_all_users"
    /\ resp.uid = 2
    /\ resp.status = 200
    /\ users[2].role = ADMIN
    /\ ~users[1].is_active

-----------------------------------------------------------------------------
(* Email delivery failures *)

\* C20: a send that raises fails no operation and undoes nothing.  When
\* the send of register, resend-verification, forgot-password,
\* reset-password or change-password has raised, the response is the
\* operation's success response and the account, token or password hash
\* committed before the send is in the store.
C20_SendFailureSwallowed ==
    resp.mail = "failed" =>
        /\ resp.uid \in DOMAIN users
        /\ LET user == users[resp.uid] IN
           /\ resp.op = "register_user" =>
                 /\ resp.status = 201
                 /\ user.username = resp.req[1]
                 /\ user.email = resp.req[2]
                 /\ user.verification_token # None
           /\ resp.op = "resend_verification_email" =>
                 /\ resp.status = 200
                 /\ user.verification_token # None
                 /\ user.verification_token_expiry
                       = now + hours(VERIFICATION_TOKEN_EXPIRE_HOURS)
           /\ resp.op = "forgot_password" =>
                 /\ resp.status = 200
                 /\ user.reset_token # None
                 /\ user.reset_token_expiry = now + hours(RESET_TOKEN_EXPIRE_HOURS)
           /\ resp.op = "reset_password" =>
                 /\ resp.status = 200
                 /\ resp.detail = "Password reset successfully"
                 /\ user.hashed_password = get_password_hash("pw2")
                 /\ user.reset_token = None
           /\ resp.op = "change_password" =>
                 /\ resp.status = 200
                 /\ resp.detail = "Password changed successfully"
                 /\ user.hashed_password = get_password_hash(resp.req[2])

\* a password was reset although the notification could not be sent
C20_Witness ==
    /\ resp.op = "reset_password"
    /\ resp.mail = "failed"
    /\ resp.status = 200
    /\ users[resp.uid].hashed_password = get_password_hash("pw2")
    /\ users[resp.uid].reset_token = None

-----------------------------------------------------------------------------
(* GitHub OAuth *)

UsedState(state) == BagIn(<<"oauth_state", state>>, consumed)

\* C21: an OAuth state is single-use.  No state is accepted twice (also
\* not by two concurrent callbacks); a callback gets past the state check
\* only with a state that is in the map, and the map no longer holds it
\* once the callback is past that test; a callback with a state accepted earlier
\* answers 400 "Invalid state parameter" and does not start.
C21_StateSingleUse ==
    /\ [](\A x \in BagToSet(consumed) :
             x[1] = "oauth_state" =>
                 CopiesIn(x, consumed) = 1 /\ x[2] \notin PendingStates)
    /\ [][\A p \in Procs, state \in IssuedStates \cup {0} :
            OauthBegin(p, state) =>
                /\ sess'[p].pc = "oauth_provider" =>
                      state \in PendingStates /\ state \notin PendingStates'
                /\ (UsedState(state) \/ state \notin PendingStates) =>
                      /\ resp'.status = 400
                      /\ resp'.detail = "Invalid state parameter"
                      /\ sess' = sess]_vars

\* a callback presents a state that an earlier callback used up
C21_Witness ==
    /\ resp.op = "github_callback"
    /\ resp.detail = "Invalid state parameter"
    /\ Len(resp.req) = 1
    /\ UsedState(resp.req[1])

HasVerifiedEmail(emails) ==
    \E i \in DOMAIN emails : emails[i].primary /\ emails[i].verified

\* C22: a callback for which GitHub supplies no verified email fails.
\* When the code exchange and GET /user succeed but no address of
\* GET /user/emails is both primary and verified, the callback answers
\* 400 and ends there, before any account is looked up or created and
\* before any token is issued.
C22_UnverifiedEmailFails ==
    [][\A p \in Procs, reply \in ProviderReplies :
          (/\ OauthProvider(p, reply)
           /\ reply.exchange = 200
           /\ reply.user = 200
           /\ ~HasVerifiedEmail(reply.emails))
          => resp'.status = 400 /\ sess'[p] = IdleReq]_vars

\* the conditions under which login issues tokens for an account once the
\* password has verified
LoginAdmits(user, t) ==
    check_rate_limit(user, t).is_allowed /\ user.is_active

\* C23: a completed callback issues its tokens under the conditions of a
\* password login.  Whenever the callback has answered with the redirect
\* that carries an access token and a refresh token for an account, a
\* login with the correct password would have been let through for that
\* account: the guardrail admits it and the account is active.
C23_OauthAsLogin ==
    (resp.op = "github_callback" /\ resp.status = 307)
        => LoginAdmits(users[resp.uid], now)

\* C24: the account of a completed callback is resolved by email.  When an
\* account with the primary email exists, the callback goes on to issue
\* tokens for that account and no account is created or changed.  When
\* none exists, the username is GitHub's login, or the login followed by
\* "_" and a random suffix when the login is taken, and the INSERT adds
\* exactly one account with that username and email, is_verified true, no
\* password hash, role user and is_active true, leaving every other
\* account as it was.  Issuing the tokens changes no account.
C24_ResolveByEmail ==
    [][\A p \in Procs :
          /\ \A reply \in ProviderReplies :
                (OauthProvider(p, reply) /\ sess'[p].pc = "oauth_tokens") =>
                    /\ users' = users
                    /\ sess'[p].uid \in DOMAIN users
                    /\ users[sess'[p].uid].email = PrimaryEmail(reply.emails)
          /\ \A reply \in ProviderReplies :
                (OauthProvider(p, reply) /\ sess'[p].pc = "oauth_username") =>
                    /\ users' = users
                    /\ ByEmail(PrimaryEmail(reply.emails)) = {}
                    /\ sess'[p].username = reply.login
                    /\ sess'[p].email = PrimaryEmail(reply.emails)
          /\ \A hex \in HexInputs :
                OauthSelectUsername(p, hex) =>
                    /\ users' = users
                    /\ sess'[p].username =
                          IF \E u \in DOMAIN users :
                                users[u].username = sess[p].username
                          THEN sess[p].username \o "_" \o hex
                          ELSE sess[p].username
          /\ (OauthCommit(p) /\ sess'[p].pc = "oauth_tokens") =>
                LET uid == sess'[p].uid
                IN /\ DOMAIN users' = DOMAIN users \cup {uid}
                   /\ uid \notin DOMAIN users
                   /\ \A u \in DOMAIN users : users'[u] = users[u]
                   /\ users'[uid].username = sess[p].username
                   /\ users'[uid].email = sess[p].email
                   /\ users'[uid].is_verified
                   /\ users'[uid].hashed_password = NoHash
                   /\ users'[uid].role = USER
                   /\ users'[uid].is_active
          /\ OauthTokens(p) =>
                /\ users' = users
                /\ resp'.uid = sess[p].uid
                /\ users[resp'.uid].email = sess[p].email]_vars

\* a callback completed for a new account whose GitHub login was taken
C24_Witness ==
    /\ resp.op = "github_callback"
    /\ resp.status = 307
    /\ resp.uid = 2
    /\ users[2].username = "alice_0a"
    /\ users[2].email = "b@x.com"
    /\ users[2].is_verified

-----------------------------------------------------------------------------
(* The guardrail's transitions, checked under Spec *)

\* the request of response r is a login for account u that the guardrail
\* let through and whose password did not verify
WrongPasswordAnswered(u) ==
    /\ LoginAnswered(u)
    /\ resp'.status = 401
    /\ Login(resp'.req[1], resp'.req[2], "ua")

\* the lock of account u has run out at time t
LockExpired(u, t) ==
    users[u].account_locked_until # None /\ users[u].account_locked_until <= t

\* the last failure on the unlocked account u is older than the window
WindowElapsed(u, t) ==
    /\ users[u].account_locked_until = None
    /\ users[u].last_failed_login # None
    /\ t - users[u].last_failed_login > LOGIN_RATE_LIMIT_WINDOW_MINUTES

\* C25: a wrong password on an existing account that the guardrail admits
\* is counted.  The stored counter becomes one more than the counter the
\* guardrail left (the stored one, or 0 when the guardrail cleared it),
\* last_failed_login becomes now, account_locked_until becomes
\* now + ACCOUNT_LOCKOUT_MINUTES exactly when the new counter reaches
\* LOGIN_RATE_LIMIT_ATTEMPTS and otherwise keeps the value the guardrail
\* left, and the 401 carries no token and no refresh token is stored.
C25_FailureCounted ==
    [][\A u \in DOMAIN users :
          WrongPasswordAnswered(u) =>
              LET cleared == LockExpired(u, now) \/ WindowElapsed(u, now)
                  n == IF cleared THEN 1
                       ELSE users[u].failed_login_attempts + 1
              IN /\ users'[u].failed_login_attempts = n
                 /\ users'[u].last_failed_login = now
                 /\ users'[u].account_locked_until =
                       IF n >= LOGIN_RATE_LIMIT_ATTEMPTS
                       THEN now + ACCOUNT_LOCKOUT_MINUTES
                       ELSE IF LockExpired(u, now) THEN None
                       ELSE users[u].account_locked_until
                 /\ ~IssuedTokens(resp')
                 /\ refresh_tokens' = refresh_tokens
                 /\ access_tokens' = access_tokens]_vars

\* the failure that reaches the threshold has locked the account
C25_Witness ==
    /\ IsLogin(resp) /\ resp.status = 401 /\ resp.uid # None
    /\ resp.pre.failed_login_attempts = LOGIN_RATE_LIMIT_ATTEMPTS - 1
    /\ users[resp.uid].failed_login_attempts = LOGIN_RATE_LIMIT_ATTEMPTS
    /\ users[resp.uid].last_failed_login = now
    /\ users[resp.uid].account_locked_until = now + ACCOUNT_LOCKOUT_MINUTES

\* C26: a login on a locked account at or after the lockout expiry is let
\* through.  It is never answered 429; it goes on to the password check,
\* and when the password is wrong the stored counter is 1 afterwards and
\* account_locked_until is null, and when the login succeeds the counter is
\* 0 and account_locked_until is null.
C26_ExpiredLockAdmits ==
    [][\A u \in DOMAIN users :
          (/\ LoginAnswered(u)
           /\ LockExpired(u, now)
           /\ Login(resp'.req[1], resp'.req[2], "ua"))
          => /\ resp'.status # 429
             /\ resp'.status = 401 =>
                   /\ ~verify_password(resp'.req[2], users[u].hashed_password)
                   /\ users'[u].failed_login_attempts = 1
                   /\ users'[u].account_locked_until = None
             /\ resp'.status = 200 =>
                   /\ verify_password(resp'.req[2], users[u].hashed_password)
                   /\ users'[u].failed_login_attempts = 0
                   /\ users'[u].account_locked_until = None]_vars

\* a wrong password at the very minute the lock ran out
C26_Witness ==
    /\ IsLogin(resp) /\ resp.status = 401 /\ resp.uid # None
    /\ resp.pre.account_locked_until = now
    /\ resp.pre.failed_login_attempts = LOGIN_RATE_LIMIT_ATTEMPTS
    /\ users[resp.uid].failed_login_attempts = 1
    /\ users[resp.uid].account_locked_until = None

\* C27: failures further apart than the window do not accumulate.  A login
\* on an unlocked account whose last failure is more than
\* LOGIN_RATE_LIMIT_WINDOW_MINUTES old is let through with the counter taken
\* as 0, so a wrong password leaves the stored counter at 1; and the stored
\* counter never exceeds the number of failures made in a row each within
\* the window of the one before.
C27_WindowResets ==
    /\ [](\A u \in DOMAIN users :
             users[u].failed_login_attempts <= streak[u].n)
    /\ [][\A u \in DOMAIN users :
            (/\ LoginAnswered(u)
             /\ WindowElapsed(u, now)
             /\ Login(resp'.req[1], resp'.req[2], "ua"))
            => /\ resp'.status # 429
               /\ resp'.status = 401 =>
                     users'[u].failed_login_attempts = 1]_vars

\* a second failure, made after the window had elapsed, is counted as the
\* first
C27_Witness ==
    /\ IsLogin(resp) /\ resp.status = 401 /\ resp.uid # None
    /\ resp.pre.account_locked_until = None
    /\ resp.pre.failed_login_attempts = LOGIN_RATE_LIMIT_ATTEMPTS - 1
    /\ now - resp.pre.last_failed_login > LOGIN_RATE_LIMIT_WINDOW_MINUTES
    /\ users[resp.uid].failed_login_attempts = 1

\* C28: a login that the guardrail admits and whose password verifies
\* leaves failed_login_attempts at 0 and last_failed_login and
\* account_locked_until null, whether it then succeeds (200) or is refused
\* because the account is inactive (400).
C28_VerifiedResets ==
    (IsLogin(resp) /\ resp.uid # None /\ resp.status \in {200, 400}) =>
        /\ users[resp.uid].failed_login_attempts = 0
        /\ users[resp.uid].last_failed_login = None
        /\ users[resp.uid].account_locked_until = None

-----------------------------------------------------------------------------
(* What clears a lock, checked under SpecLockout *)

\* C29: account_locked_until goes from set to null only in a login for
\* that account that either succeeds or is made at or after the lockout
\* expiry.  Verify-email, forgot-password, reset-password, change-password,
\* refresh, logout, set-role and deactivate never clear it; in particular
\* a successful password reset leaves account_locked_until as it was.
C29_OnlyLoginUnlocks ==
    /\ [][\A u \in DOMAIN users :
            (/\ users[u].account_locked_until # None
             /\ users'[u].account_locked_until = None)
            => /\ IsLogin(resp')
               /\ resp'.uid = u
               /\ resp'.status = 200 \/ users[u].account_locked_until <= now]_vars
    /\ [][(resp' # resp /\ resp'.op = "reset_password" /\ resp'.status = 200)
            => users'[resp'.uid].account_locked_until
                  = users[resp'.uid].account_locked_until]_vars

\* the password chosen by a reset is refused with 429 because the account
\* is still locked
C29_Witness ==
    /\ IsLogin(resp) /\ resp.status = 429 /\ resp.uid # None
    /\ users[resp.uid].hashed_password = get_password_hash("pw2")
    /\ resp.req[2] = "pw2"
    /\ consumed # EmptyBag
    /\ users[resp.uid].account_locked_until > now

-----------------------------------------------------------------------------
(* Re-issued one-time tokens, checked under SpecOneTime *)

\* token has been handed out before now
HandedOut(token) == token < next_token \/ token > MaxTokens

\* a token that was handed out, was not consumed and is on no account
SupersededReset(token) ==
    HandedOut(token) /\ ByResetToken(token) = {} /\ ~SecondConsume("reset", token)

SupersededVerification(token) ==
    /\ HandedOut(token)
    /\ ByVerificationToken(token) = {}
    /\ ~SecondConsume("verify", token)

\* C30: a re-request overwrites the outstanding token.  Forgot-password
\* for an existing account and resend-verification for an unverified one
\* store a token never handed out before, with a fresh expiry, in place of
\* the one that was there; the token that was there is on no account from
\* then on, and every reset-password (verify-email) with it answers 400
\* with the invalid-token detail and changes no account.
C30_ReissueOverwrites ==
    [][/\ (resp'.op = "forgot_password" /\ next_token' # next_token) =>
            LET u == resp'.uid
                old == users[u].reset_token
            IN /\ ~HandedOut(users'[u].reset_token)
               /\ users'[u].reset_token_expiry
                     = now + hours(RESET_TOKEN_EXPIRE_HOURS)
               /\ old # None =>
                     \A v \in DOMAIN users' : users'[v].reset_token # old
       /\ (resp'.op = "resend_verification_email" /\ next_token' # next_token) =>
            LET u == resp'.uid
                old == users[u].verification_token
            IN /\ ~HandedOut(users'[u].verification_token)
               /\ users'[u].verification_token_expiry
                     = now + hours(VERIFICATION_TOKEN_EXPIRE_HOURS)
               /\ old # None =>
                     \A v \in DOMAIN users' :
                         users'[v].verification_token # old
       /\ \A token \in TokenInputs :
            /\ SupersededReset(token) => SupersededReset(token)'
            /\ SupersededVerification(token) => SupersededVerification(token)'
       /\ (/\ resp' # resp
           /\ resp'.op = "reset_password"
           /\ SupersededReset(resp'.req[1]))
             => /\ resp'.status = 400
                /\ resp'.detail = "Invalid reset token"
                /\ users' = users
       /\ (/\ resp' # resp
           /\ resp'.op = "verify_email"
           /\ SupersededVerification(resp'.req[1]))
             => /\ resp'.status = 400
                /\ resp'.detail = "Invalid verification token"
                /\ users' = users]_vars

\* the first of two reset tokens is refused while the second is outstanding
C30_Witness ==
    /\ resp.op = "reset_password"
    /\ resp.status = 400
    /\ resp.detail = "Invalid reset token"
    /\ resp.req[1] = 1
    /\ SupersededReset(1)
    /\ users[1].reset_token = 2

-----------------------------------------------------------------------------
(* The two token slots of an account *)

\* C31: a successful consume touches its own slot only.  A verify-email
\* answered 200 sets is_verified, nulls verification_token and
\* verification_token_expiry and changes nothing else of any account; a
\* reset-password answered 200 stores the hash of the new password, nulls
\* reset_token and reset_token_expiry, zeroes failed_login_attempts and
\* changes nothing else, so either token survives the consume of the other.
C31_ConsumeOwnSlot ==
    [][/\ (resp' # resp /\ resp'.op = "verify_email" /\ resp'.status = 200) =>
            users' = [users EXCEPT
                        ![resp'.uid].is_verified = TRUE,
                        ![resp'.uid].verification_token = None,
                        ![resp'.uid].verification_token_expiry = None]
       /\ (resp' # resp /\ resp'.op = "reset_password" /\ resp'.status = 200) =>
            users' = [users EXCEPT
                        ![resp'.uid].hashed_password = get_password_hash("pw2"),
                        ![resp'.uid].reset_token = None,
                        ![resp'.uid].reset_token_expiry = None,
                        ![resp'.uid].failed_login_attempts = 0]]_vars

\* the email is verified after the password was reset while the
\* verification token was outstanding
C31_Witness ==
    /\ resp.op = "verify_email"
    /\ resp.status = 200
    /\ BagIn(<<"reset", 1>>, consumed)
    /\ users[resp.uid].hashed_password = get_password_hash("pw2")
    /\ users[resp.uid].is_verified

\* C32: on every account a token and its expiry are null together, and
\* no verification token and no reset token is held by two accounts.
C32_TokenSlotsPaired ==
    /\ \A u \in DOMAIN users :
          /\ users[u].verification_token = None
                <=> users[u].verification_token_expiry = None
          /\ users[u].reset_token = None <=> users[u].reset_token_expiry = None
    /\ \A u, v \in DOMAIN users :
          u # v =>
              /\ users[u].verification_token # None
                    => users[u].verification_token # users[v].verification_token
              /\ users[u].reset_token # None
                    => users[u].reset_token # users[v].reset_token

\* two accounts, one verified, the other with both tokens outstanding
C32_Witness ==
    /\ Cardinality(DOMAIN users) = 2
    /\ \E u, v \in DOMAIN users :
          /\ users[u].is_verified /\ users[u].verification_token = None
          /\ users[v].verification_token # None /\ users[v].reset_token # None

-----------------------------------------------------------------------------
(* The ledger's rows *)

\* C33: a refresh token, once issued, stays in the ledger with the same
\* token string, account, expiry and device descriptor; its revoked flag,
\* once set, stays set; and no two rows carry the same token string.
C33_LedgerRowsImmutable ==
    /\ [](\A r1, r2 \in refresh_tokens : r1.token = r2.token => r1 = r2)
    /\ [][\A r \in refresh_tokens :
            \E r2 \in refresh_tokens' :
                /\ r2.token = r.token
                /\ r2.user_id = r.user_id
                /\ r2.expires_at = r.expires_at
                /\ r2.device_info = r.device_info
                /\ r.is_revoked => r2.is_revoked]_vars

\* a login after the earlier token was revoked by logout: the revoked row
\* is kept beside the new one
C33_Witness ==
    /\ IsLogin(resp) /\ resp.status = 200
    /\ Cardinality(refresh_tokens) = 2
    /\ \E r \in refresh_tokens : r.is_revoked /\ r.user_id = resp.uid
    /\ \E r \in refresh_tokens : ~r.is_revoked /\ r.token = resp.refresh_token

-----------------------------------------------------------------------------
(* Accounts over their life, checked under SpecLifecycle *)

\* C34: accounts are never removed and never re-activated.  Every account
\* stays in the store with its username and email; is_active changes only
\* from true to false, only in a deactivate answered 200 that names the
\* account, and that deactivate changes nothing else.
C34_DeactivationIsFinal ==
    [][/\ \A u \in DOMAIN users :
            /\ u \in DOMAIN users'
            /\ users'[u].username = users[u].username
            /\ users'[u].email = users[u].email
            /\ users'[u].is_active # users[u].is_active =>
                  /\ users[u].is_active
                  /\ resp'.op = "deactivate_user"
                  /\ resp'.status = 200
                  /\ resp'.req = <<u>>
       /\ (resp' # resp /\ resp'.op = "deactivate_user" /\ resp'.status = 200) =>
            users' = [users EXCEPT ![resp'.req[1]].is_active = FALSE]]_vars

\* a deactivated account has verified its email and is still inactive
C34_Witness ==
    /\ resp.op = "verify_email"
    /\ resp.status = 200
    /\ ~users[resp.uid].is_active
    /\ users[resp.uid].is_verified

\* C40: roles change only through set-role called by an administrator.
\* An account created by register or by the GitHub callback has role
\* user, and the role of an existing account changes only in a set-role
\* answered 200 that names the account and whose caller's stored role was
\* admin when the request was made.
C40_OnlyAdminSetsRole ==
    [][/\ \A u \in DOMAIN users' \ DOMAIN users : users'[u].role = USER
       /\ \A u \in DOMAIN users :
            users'[u].role # users[u].role =>
                /\ resp'.op = "update_user_role"
                /\ resp'.status = 200
                /\ resp'.req = <<u, users'[u].role>>
                /\ resp'.uid \in DOMAIN users
                /\ users[resp'.uid].role = ADMIN]_vars

\* an account promoted to admin has used set-role itself
C40_Witness ==
    /\ resp.op = "update_user_role"
    /\ resp.status = 200
    /\ resp.uid = 2
    /\ resp.role = ADMIN
    /\ users[2].role = MODERATOR
    /\ users[1].role = ADMIN

-----------------------------------------------------------------------------
(* Tokens and the active flag *)

\* C38: no token is issued for an inactive account.  Whenever a response
\* carries an access token or a refresh token (from login, from refresh or
\* from the GitHub callback), the account it is issued for has is_active
\* true when the request is answered.
C38_NoTokenForInactive ==
    [][(resp' # resp /\ IssuedTokens(resp'))
          => /\ resp'.uid \in DOMAIN users
             /\ users[resp'.uid].is_active]_vars

-----------------------------------------------------------------------------
(* Logins against a lock, checked under SpecLockout *)

\* account u is locked at time t
LockedAt(u, t) ==
    users[u].account_locked_until # None /\ users[u].account_locked_until > t

\* C36: a login for an account that is locked (now < account_locked_until)
\* is rejected with 429 and leaves the stored failed_login_attempts,
\* last_failed_login and account_locked_until as they were, whether the
\* password presented is the right one or a wrong one; nothing else of the
\* stored data changes either and no token is issued.
C36_LockedLoginChangesNothing ==
    [][\A u \in DOMAIN users :
          (LoginAnswered(u) /\ LockedAt(u, now))
              => /\ resp'.status = 429
                 /\ Guardrail(users'[u]) = Guardrail(users[u])
                 /\ users' = users
                 /\ refresh_tokens' = refresh_tokens
                 /\ ~IssuedTokens(resp')]_vars

\* the right password was presented during the lock and rejected
C36_Witness ==
    /\ IsLogin(resp) /\ resp.status = 429 /\ resp.uid \in DOMAIN users
    /\ LockedAt(resp.uid, now)
    /\ verify_password(resp.req[2], users[resp.uid].hashed_password)
    /\ Guardrail(users[resp.uid]) = resp.pre

\* C37: a lock ends by the passing of time alone.  A login for an active
\* account whose account_locked_until is set and not later than now, made
\* with the account's password, is answered 200 with an access token and a
\* refresh token, the refresh token is stored unrevoked for the account,
\* and the account's guardrail fields are cleared.
C37_LockEndsByItself ==
    [][\A u \in DOMAIN users :
          (/\ LoginAnswered(u)
           /\ LockExpired(u, now)
           /\ users[u].is_active
           /\ verify_password(resp'.req[2], users[u].hashed_password))
              => /\ resp'.status = 200
                 /\ resp'.access_token = create_access_token(u, now)
                 /\ \E rt \in refresh_tokens' \ refresh_tokens :
                       /\ rt.token = resp'.refresh_token
                       /\ rt.user_id = u /\ ~rt.is_revoked
                 /\ users'[u].account_locked_until = None
                 /\ users'[u].failed_login_attempts = 0]_vars

\* the first login after the lock ran out, at the very instant of its
\* expiry, with nothing having touched the account since it was locked
C37_Witness ==
    /\ IsLogin(resp) /\ resp.status = 200 /\ resp.uid \in DOMAIN users
    /\ resp.pre.account_locked_until = now
    /\ resp.pre.failed_login_attempts = LOGIN_RATE_LIMIT_ATTEMPTS
    /\ IssuedTokens(resp)
    /\ users[resp.uid].account_locked_until = None

-----------------------------------------------------------------------------
(* Passwords and the ledger *)

PasswordReplaced(r) ==
    r.op \in {"change_password", "reset_password"} /\ r.status = 200

\* C39: a successful change-password or reset-password leaves the ledger
\* of refresh tokens as it was, and every refresh token that was
\* redeemable before the request (in the ledger, unrevoked, unexpired, of
\* an active account) is redeemable after it.
C39_PasswordKeepsRefreshTokens ==
    [][(resp' # resp /\ PasswordReplaced(resp'))
          => /\ refresh_tokens' = refresh_tokens
             /\ \A rt \in refresh_tokens :
                   (/\ ~rt.is_revoked
                    /\ now <= rt.expires_at
                    /\ users[rt.user_id].is_active)
                       => /\ rt \in refresh_tokens'
                          /\ now' <= rt.expires_at
                          /\ rt.user_id \in DOMAIN users'
                          /\ users'[rt.user_id].is_active]_vars

\* the password of an account was replaced and a refresh token handed out
\* under the old password has been redeemed since
C39_Witness ==
    \E rt \in refresh_tokens :
        /\ IsRefresh(resp) /\ resp.status = 200 /\ resp.req = <<rt.token>>
        /\ ~verify_password("pw", users[rt.user_id].hashed_password)
        /\ verify_password("pw2", users[rt.user_id].hashed_password)

-----------------------------------------------------------------------------
(* The stored counter under concurrent logins, checked under SpecRace *)

====
